---- MODULE Spec2Model ----
(***************************************************************************)
(* Broadcast hub and weekly duration ledger of the coding-tracker server.  *)
(* The hub (type Hub, run, broadcastMessage, matchesFilter) owns the       *)
(* subscriber registry; AddSessionRecord / GetWeeklyTotal /                *)
(* GetAllWeeklyTotals own the per-client session records.                  *)
(***************************************************************************)
EXTENDS Integers, Sequences, FiniteSets, TLC

\* ------------------------------------------------------------------ bounds
\* MaxQueue stands for the capacity of h.broadcast (256 in newHub); MaxSubmit
\* bounds the messages of one producer, MaxCalls the Register/Unregister
\* calls and MaxAdds the AddSessionRecord calls of one behaviour.
MaxQueue == 2
MaxSubmit == 2
MaxCalls == 3
MaxAdds == 2
MaxReports == 2

\* 7 * 24 * time.Hour, in days
Week == 7

\* ------------------------------------------------------------- text values
\* Go strings are modelled as sequences of one-character strings.
Comma == ","
Whitespace == {" ", "\t"}

Metrics == <<"m", "e", "t", "r", "i", "c", "s">>
Session == <<"s", "e", "s", "s", "i", "o", "n">>
WeeklySummary == <<"w", "e", "e", "k", "l", "y", "_", "s", "u", "m", "m", "a", "r", "y">>
EventTypes == {Metrics, Session, WeeklySummary}

FilterAll == <<>>
FilterMonitor == Metrics
FilterExternal == Session \o <<Comma>> \o WeeklySummary
FilterSpaced == <<" ">> \o Metrics \o <<" ", Comma, "\t", "S", "e", "s", "s", "i", "o", "n">>
Filters == {FilterAll, FilterExternal, FilterSpaced}

\* filter specifications that name no event type, and the filters a
\* connection can get when those and the monitor handler's are in use
FilterUnknown == <<"f", "o", "o">>
FilterBlank == <<" ">>
HandlerFilters == {FilterAll, FilterMonitor, FilterUnknown, FilterBlank}

Conns == {"c1", "c2"}
Producers == {"p1", "p2"}

\* -------------------------------------------------------- matchesFilter
RECURSIVE Split(_)
Split(s) ==
    IF \E i \in 1..Len(s) : s[i] = Comma
    THEN LET i == CHOOSE j \in 1..Len(s) :
                      s[j] = Comma /\ \A k \in 1..(j - 1) : s[k] # Comma
         IN  <<SubSeq(s, 1, i - 1)>> \o Split(SubSeq(s, i + 1, Len(s)))
    ELSE <<s>>

RECURSIVE TrimLeft(_)
TrimLeft(s) ==
    IF s # <<>> /\ Head(s) \in Whitespace THEN TrimLeft(Tail(s)) ELSE s

RECURSIVE TrimRight(_)
TrimRight(s) ==
    IF s # <<>> /\ s[Len(s)] \in Whitespace
    THEN TrimRight(SubSeq(s, 1, Len(s) - 1))
    ELSE s

TrimSpace(s) == TrimRight(TrimLeft(s))

\* variant: the filter is compared with the type as a whole
matchesFilterWhole(messageType, filter) == filter = <<>> \/ filter = messageType

matchesFilter(messageType, filter) ==
    IF filter = <<>>
    THEN TRUE
    ELSE LET filters == Split(filter)
         IN  \E i \in 1..Len(filters) : TrimSpace(filters[i]) = messageType

\* ------------------------------------------------------------------- state
VARIABLES
    clients,        \* h.clients: connection -> filter
    broadcast,      \* h.broadcast: buffered channel of BroadcastMessage
    regPending,     \* goroutines blocked in  hub.register <- Subscription{..}
    unregPending,   \* goroutines blocked in  hub.unregister <- conn
    mutex,          \* h.mutex: [w: exclusive holder, r: set of shared holders]
    hubPc,          \* position of the goroutine running Hub.run
    sub,            \* run: the Subscription received from h.register
    client,         \* run: the connection received from h.unregister
    message,        \* broadcastMessage: its parameter
    clientsCopy,    \* broadcastMessage: the copied map
    todo,           \* broadcastMessage: keys of clientsCopy not yet ranged over
    failedClients,  \* broadcastMessage: the failed connections, in order
    closes,         \* number of Close() calls the hub made on each connection
    received,       \* per connection: the messages written to it successfully
    attempts,       \* per connection: WriteMessage calls of the current pass
    sent,           \* per producer: number of messages it has submitted
    calls,          \* number of Register/Unregister calls issued so far
    lastOp,         \* per connection: what the hub last did to its registration
    diagPc,         \* position of the goroutine calling GetClientCount
    weeklyRecords,  \* h.weeklyRecords: client key -> session records
    clock,          \* time.Now(), in days
    opPc,           \* per ledger caller: its position in the ledger method
    opArgs,         \* per ledger caller: clientKey, duration and its "now"
    ret,            \* the value the last completed ledger call returned, or
                    \* the "weekly_totals" of the /stats response
    history,        \* per client key: the (now, duration) of each record added
    adds,           \* number of AddSessionRecord calls issued so far
    trackPc,        \* per tracking connection: position of trackingWSHandler
    report,         \* trackingWSHandler: the message read last (session)
    trackNow,       \* trackingWSHandler: "now" of its AddSessionRecord call
    weekSeconds,    \* trackingWSHandler: what AddSessionRecord returned
    reports,        \* per tracking connection: number of messages read
    handler,        \* per connection: the handler that serves it
    connPc,         \* per connection: position of that handler
    samplers,       \* per connection: its metrics goroutine is running
    pingPc          \* per connection: position of its ping goroutine

hubVars == <<clients, broadcast, regPending, unregPending, hubPc, sub, client,
             message, clientsCopy, todo, failedClients, closes, received, attempts,
             sent, calls, lastOp, diagPc>>
ledgerVars == <<weeklyRecords, clock, opPc, opArgs, ret, history, adds>>
handlerVars == <<trackPc, report, trackNow, weekSeconds, reports,
                 handler, connPc, samplers, pingPc>>
vars == <<hubVars, mutex, ledgerVars, handlerVars>>

Keys == {"10.0.0.5", "10.0.0.6"}
Workers == {"g1", "g2"}
Durations == {-1, 50, 100}
\* the instants at which something happens: day 0, exactly a week later,
\* and a day after that
Instants == {0, Week, Week + 1}
NoArgs == [clientKey |-> "none", duration |-> 0, now |-> 0]
NoRet == [op |-> "none", total |-> 0, totals |-> <<>>]

NoConn == "none"
NoSub == [Conn |-> NoConn, Filter |-> <<>>]
NoMessage == [Type |-> <<>>, src |-> "none", n |-> 0, ok |-> TRUE, data |-> 0]

\* the tracking connections and their r.RemoteAddr
TrackConns == {"t1", "t2"}
TrackIP == [t \in TrackConns |-> IF t = "t1" THEN "10.0.0.5" ELSE "10.0.0.6"]
\* what a tracking client can send: something that does not parse, or a
\* CodingSession with its duration_seconds
NoReport == [parsed |-> FALSE, DurationSeconds |-> 0]
Reports == {NoReport} \cup {[parsed |-> TRUE, DurationSeconds |-> d] : d \in {-1, 0, 50}}
EmptyMap == [c \in {} |-> <<>>]

\* newHub
Init ==
    /\ clients = EmptyMap
    /\ broadcast = <<>>
    /\ regPending = {}
    /\ unregPending = {}
    /\ mutex = [w |-> "none", r |-> {}]
    /\ hubPc = "select"
    /\ sub = NoSub
    /\ client = NoConn
    /\ message = NoMessage
    /\ clientsCopy = EmptyMap
    /\ todo = {}
    /\ failedClients = <<>>
    /\ closes = [c \in Conns |-> 0]
    /\ received = [c \in Conns |-> <<>>]
    /\ attempts = [c \in Conns |-> 0]
    /\ sent = [p \in Producers |-> 0]
    /\ calls = 0
    /\ lastOp = [c \in Conns |-> "none"]
    /\ diagPc = "idle"
    /\ weeklyRecords = EmptyMap
    /\ clock = 0
    /\ opPc = [g \in Workers |-> "idle"]
    /\ opArgs = [g \in Workers |-> NoArgs]
    /\ ret = NoRet
    /\ history = [k \in Keys |-> <<>>]
    /\ adds = 0
    /\ trackPc = [t \in TrackConns |-> "read"]
    /\ report = [t \in TrackConns |-> NoReport]
    /\ trackNow = [t \in TrackConns |-> 0]
    /\ weekSeconds = [t \in TrackConns |-> 0]
    /\ reports = [t \in TrackConns |-> 0]
    /\ handler = [c \in Conns |-> "none"]
    /\ connPc = [c \in Conns |-> "none"]
    /\ samplers = [c \in Conns |-> FALSE]
    /\ pingPc = [c \in Conns |-> "idle"]

\* ------------------------------------------------------------ map helpers
MapSet(m, k, v) == [x \in (DOMAIN m) \cup {k} |-> IF x = k THEN v ELSE m[x]]
MapDelete(m, ks) == [x \in (DOMAIN m) \ ks |-> m[x]]
Range(s) == {s[i] : i \in 1..Len(s)}

\* variant: the newest message overtakes the queued ones
ChanSendFront(q, m) == <<m>> \o q

\* variant: a message sent when one slot is left is dropped
ChanSendDropping(q, m) == IF Len(q) + 1 < MaxQueue THEN Append(q, m) ELSE q

\* a buffered channel is a FIFO queue
ChanSend(q, m) == Append(q, m)

\* variants: Lock does not wait for the readers; RLock waits for them
CanLockDespiteReaders == mutex.w = "none"
CanRLockAlone == mutex.w = "none" /\ mutex.r = {}

\* sync.RWMutex
CanLock == mutex.w = "none" /\ mutex.r = {}
CanRLock == mutex.w = "none"

\* ----------------------------------------------------------------- callers
\* hub.register <- Subscription{Conn: c, Filter: f}: the caller blocks until
\* the hub receives.
Register(c, f) ==
    /\ calls < MaxCalls
    /\ calls' = calls + 1
    /\ regPending' = regPending \cup {[Conn |-> c, Filter |-> f]}
    /\ UNCHANGED <<clients, broadcast, unregPending, mutex, hubPc, sub, client,
                   message, clientsCopy, todo, failedClients, closes, received,
                   attempts, sent, lastOp, diagPc>>
    /\ UNCHANGED ledgerVars
    /\ UNCHANGED handlerVars

\* hub.unregister <- c
Unregister(c) ==
    /\ calls < MaxCalls
    /\ calls' = calls + 1
    /\ unregPending' = unregPending \cup {c}
    /\ UNCHANGED <<clients, broadcast, regPending, mutex, hubPc, sub, client,
                   message, clientsCopy, todo, failedClients, closes, received,
                   attempts, sent, lastOp, diagPc>>
    /\ UNCHANGED ledgerVars
    /\ UNCHANGED handlerVars

\* The producers: the monitor handler's sampler submits metrics; the tracking
\* handler submits, per session report, a session message and then a
\* weekly_summary message.
Sampler == "p1"
Tracker == "p2"
NextType(p, n) ==
    IF p = Sampler THEN Metrics ELSE IF n % 2 = 0 THEN Session ELSE WeeklySummary

\* hub.broadcast <- BroadcastMessage{Type: t, ...}: blocks while the channel
\* is full. Only a metrics payload (float64 fields) can fail json.Marshal.
Submit(p, t, ok) ==
    /\ sent[p] < MaxSubmit
    /\ Len(broadcast) < MaxQueue
    /\ t = NextType(p, sent[p])
    /\ ok = FALSE => t = Metrics
    /\ sent' = [sent EXCEPT ![p] = @ + 1]
    /\ broadcast' = ChanSend(broadcast,
                             [Type |-> t, src |-> p, n |-> sent[p] + 1, ok |-> ok,
                              data |-> 0])
    /\ UNCHANGED <<clients, regPending, unregPending, mutex, hubPc, sub, client,
                   message, clientsCopy, todo, failedClients, closes, received,
                   attempts, calls, lastOp, diagPc>>
    /\ UNCHANGED ledgerVars
    /\ UNCHANGED handlerVars

\* GetClientCount: RLock, len(h.clients), RUnlock
GetClientCountRLock ==
    /\ diagPc = "idle"
    /\ CanRLock
    /\ mutex' = [mutex EXCEPT !.r = @ \cup {"diag"}]
    /\ diagPc' = "rlocked"
    /\ UNCHANGED <<clients, broadcast, regPending, unregPending, hubPc, sub,
                   client, message, clientsCopy, todo, failedClients, closes,
                   received, attempts, sent, calls, lastOp>>
    /\ UNCHANGED ledgerVars
    /\ UNCHANGED handlerVars

\* return len(h.clients)
GetClientCount == Cardinality(DOMAIN clients)

GetClientCountReturn ==
    /\ diagPc = "rlocked"
    /\ GetClientCount \in 0..Cardinality(Conns)
    /\ mutex' = [mutex EXCEPT !.r = @ \ {"diag"}]
    /\ diagPc' = "idle"
    /\ UNCHANGED <<clients, broadcast, regPending, unregPending, hubPc, sub,
                   client, message, clientsCopy, todo, failedClients, closes,
                   received, attempts, sent, calls, lastOp>>
    /\ UNCHANGED ledgerVars
    /\ UNCHANGED handlerVars

\* the /health and / handlers: RLock, len(hub.clients), RUnlock
HealthRLock ==
    /\ diagPc = "idle"
    /\ CanRLock
    /\ mutex' = [mutex EXCEPT !.r = @ \cup {"diag"}]
    /\ diagPc' = "health"
    /\ UNCHANGED <<clients, broadcast, regPending, unregPending, hubPc, sub,
                   client, message, clientsCopy, todo, failedClients, closes,
                   received, attempts, sent, calls, lastOp>>
    /\ UNCHANGED ledgerVars
    /\ UNCHANGED handlerVars

HealthReturn ==
    /\ diagPc = "health"
    /\ Cardinality(DOMAIN clients) \in 0..Cardinality(Conns)
    /\ mutex' = [mutex EXCEPT !.r = @ \ {"diag"}]
    /\ diagPc' = "idle"
    /\ UNCHANGED <<clients, broadcast, regPending, unregPending, hubPc, sub,
                   client, message, clientsCopy, todo, failedClients, closes,
                   received, attempts, sent, calls, lastOp>>
    /\ UNCHANGED ledgerVars
    /\ UNCHANGED handlerVars

\* the /stats handler: RLock, range hub.clients, range hub.weeklyRecords,
\* RUnlock
StatsRLock ==
    /\ diagPc = "idle"
    /\ CanRLock
    /\ mutex' = [mutex EXCEPT !.r = @ \cup {"diag"}]
    /\ diagPc' = "stats"
    /\ UNCHANGED <<clients, broadcast, regPending, unregPending, hubPc, sub,
                   client, message, clientsCopy, todo, failedClients, closes,
                   received, attempts, sent, calls, lastOp>>
    /\ UNCHANGED ledgerVars
    /\ UNCHANGED handlerVars

\* for _, rec := range records { total += rec.Duration }
RECURSIVE StatsTotal(_)
StatsTotal(records) ==
    IF records = <<>> THEN 0 ELSE Head(records).Duration + StatsTotal(Tail(records))

\* weeklyStats[client] = total, for every key of hub.weeklyRecords
WeeklyStats == [k \in DOMAIN weeklyRecords |-> StatsTotal(weeklyRecords[k])]

StatsReturn ==
    /\ diagPc = "stats"
    /\ DOMAIN clients \subseteq Conns
    /\ DOMAIN weeklyRecords \subseteq Keys
    /\ ret' = [op |-> "stats", total |-> 0, totals |-> WeeklyStats]
    /\ mutex' = [mutex EXCEPT !.r = @ \ {"diag"}]
    /\ diagPc' = "idle"
    /\ UNCHANGED <<clients, broadcast, regPending, unregPending, hubPc, sub,
                   client, message, clientsCopy, todo, failedClients, closes,
                   received, attempts, sent, calls, lastOp>>
    /\ UNCHANGED <<weeklyRecords, clock, opPc, opArgs, history, adds>>
    /\ UNCHANGED handlerVars

\* --------------------------------------------------------------- Hub.run
\* case sub := <-h.register
RecvRegister ==
    /\ hubPc = "select"
    /\ \E s \in regPending :
         /\ regPending' = regPending \ {s}
         /\ sub' = s
    /\ hubPc' = "register"
    /\ UNCHANGED <<clients, broadcast, unregPending, mutex, client, message,
                   clientsCopy, todo, failedClients, closes, received, attempts,
                   sent, calls, lastOp, diagPc>>
    /\ UNCHANGED ledgerVars
    /\ UNCHANGED handlerVars

RegisterLock ==
    /\ hubPc = "register"
    /\ CanLock
    /\ mutex' = [mutex EXCEPT !.w = "hub"]
    /\ hubPc' = "registerLocked"
    /\ UNCHANGED <<clients, broadcast, regPending, unregPending, sub, client,
                   message, clientsCopy, todo, failedClients, closes, received,
                   attempts, sent, calls, lastOp, diagPc>>
    /\ UNCHANGED ledgerVars
    /\ UNCHANGED handlerVars

\* variant: an existing entry keeps its filter
RegisterStoreIfAbsent(m, s) ==
    IF s.Conn \in DOMAIN m THEN m ELSE MapSet(m, s.Conn, s.Filter)

\* h.clients[sub.Conn] = sub.Filter
RegisterStore(m, s) == MapSet(m, s.Conn, s.Filter)

RegisterApply ==
    /\ hubPc = "registerLocked"
    /\ clients' = RegisterStore(clients, sub)
    /\ lastOp' = [lastOp EXCEPT ![sub.Conn] =
                     IF sub.Conn \in DOMAIN clients THEN "reregister" ELSE "register"]
    /\ mutex' = [mutex EXCEPT !.w = "none"]
    /\ hubPc' = "select"
    /\ sub' = NoSub
    /\ UNCHANGED <<broadcast, regPending, unregPending, client, message,
                   clientsCopy, todo, failedClients, closes, received, attempts,
                   sent, calls, diagPc>>
    /\ UNCHANGED ledgerVars
    /\ UNCHANGED handlerVars

\* case client := <-h.unregister
RecvUnregister ==
    /\ hubPc = "select"
    /\ \E c \in unregPending :
         /\ unregPending' = unregPending \ {c}
         /\ client' = c
    /\ hubPc' = "unregister"
    /\ UNCHANGED <<clients, broadcast, regPending, mutex, sub, message,
                   clientsCopy, todo, failedClients, closes, received, attempts,
                   sent, calls, lastOp, diagPc>>
    /\ UNCHANGED ledgerVars
    /\ UNCHANGED handlerVars

UnregisterLock ==
    /\ hubPc = "unregister"
    /\ CanLock
    /\ mutex' = [mutex EXCEPT !.w = "hub"]
    /\ hubPc' = "unregisterLocked"
    /\ UNCHANGED <<clients, broadcast, regPending, unregPending, sub, client,
                   message, clientsCopy, todo, failedClients, closes, received,
                   attempts, sent, calls, lastOp, diagPc>>
    /\ UNCHANGED ledgerVars
    /\ UNCHANGED handlerVars

\* if _, ok := h.clients[c]; ok { delete(h.clients, c); c.Close() }
\* applied to each connection of cs in turn
\* variants: only one of the connections is deleted; every entry is deleted;
\* nothing is deleted; Close is called without the presence test
RemoveClientsOne(m, cs) ==
    IF cs = {} THEN m ELSE MapDelete(m, {CHOOSE c \in cs : TRUE})
RemoveClientsAll(m, cs) == IF cs = {} THEN m ELSE EmptyMap
RemoveClientsNone(m, cs) == m
CloseClientsAlways(cl, m, cs) ==
    [c \in Conns |-> IF c \in cs THEN cl[c] + 1 ELSE cl[c]]

RemoveClients(m, cs) == MapDelete(m, cs)
CloseClients(cl, m, cs) ==
    [c \in Conns |-> IF c \in cs /\ c \in DOMAIN m THEN cl[c] + 1 ELSE cl[c]]

UnregisterApply ==
    /\ hubPc = "unregisterLocked"
    /\ clients' = RemoveClients(clients, {client})
    /\ closes' = CloseClients(closes, clients, {client})
    /\ lastOp' = [lastOp EXCEPT ![client] =
                     IF client \in DOMAIN clients THEN "unregister" ELSE "absent"]
    /\ mutex' = [mutex EXCEPT !.w = "none"]
    /\ hubPc' = "select"
    /\ client' = NoConn
    /\ UNCHANGED <<broadcast, regPending, unregPending, sub, message,
                   clientsCopy, todo, failedClients, received, attempts, sent,
                   calls, diagPc>>
    /\ UNCHANGED ledgerVars
    /\ UNCHANGED handlerVars

\* ------------------------------------------------------ Hub.broadcastMessage
\* case message := <-h.broadcast: h.broadcastMessage(message)
RecvBroadcast ==
    /\ hubPc = "select"
    /\ broadcast # <<>>
    /\ message' = Head(broadcast)
    /\ broadcast' = Tail(broadcast)
    /\ hubPc' = "snapshot"
    /\ UNCHANGED <<clients, regPending, unregPending, mutex, sub, client,
                   clientsCopy, todo, failedClients, closes, received, attempts,
                   sent, calls, lastOp, diagPc>>
    /\ UNCHANGED ledgerVars
    /\ UNCHANGED handlerVars

SnapshotRLock ==
    /\ hubPc = "snapshot"
    /\ CanRLock
    /\ mutex' = [mutex EXCEPT !.r = @ \cup {"hub"}]
    /\ hubPc' = "snapshotLocked"
    /\ UNCHANGED <<clients, broadcast, regPending, unregPending, sub, client,
                   message, clientsCopy, todo, failedClients, closes, received,
                   attempts, sent, calls, lastOp, diagPc>>
    /\ UNCHANGED ledgerVars
    /\ UNCHANGED handlerVars

\* variant: the read lock is kept for the rest of the pass
SnapshotCopyKeepsLock ==
    /\ hubPc = "snapshotLocked"
    /\ clientsCopy' = clients
    /\ hubPc' = "marshal"
    /\ UNCHANGED <<clients, broadcast, regPending, unregPending, mutex, sub,
                   client, message, todo, failedClients, closes, received,
                   attempts, sent, calls, lastOp, diagPc>>
    /\ UNCHANGED ledgerVars
    /\ UNCHANGED handlerVars

\* clientsCopy[conn] = filter for every entry, then RUnlock
SnapshotCopy ==
    /\ hubPc = "snapshotLocked"
    /\ clientsCopy' = clients
    /\ mutex' = [mutex EXCEPT !.r = @ \ {"hub"}]
    /\ hubPc' = "marshal"
    /\ UNCHANGED <<clients, broadcast, regPending, unregPending, sub, client,
                   message, todo, failedClients, closes, received, attempts,
                   sent, calls, lastOp, diagPc>>
    /\ UNCHANGED ledgerVars
    /\ UNCHANGED handlerVars

\* broadcastMessage returns: its parameter and locals are gone
Return ==
    /\ hubPc' = "select"
    /\ message' = NoMessage
    /\ clientsCopy' = EmptyMap
    /\ todo' = {}
    /\ failedClients' = <<>>
    /\ attempts' = [c \in Conns |-> 0]

\* variant: the error of json.Marshal is ignored (jsonData, _ := ...)
MarshalIgnoringError ==
    /\ hubPc = "marshal"
    /\ hubPc' = "deliver"
    /\ todo' = DOMAIN clientsCopy
    /\ UNCHANGED <<message, clientsCopy, failedClients, attempts>>
    /\ UNCHANGED <<clients, broadcast, regPending, unregPending, mutex, sub,
                   client, closes, received, sent, calls, lastOp, diagPc>>
    /\ UNCHANGED ledgerVars
    /\ UNCHANGED handlerVars

\* jsonData, err := json.Marshal(message); if err != nil { return }
Marshal ==
    /\ hubPc = "marshal"
    /\ IF message.ok
       THEN /\ hubPc' = "deliver"
            /\ todo' = DOMAIN clientsCopy
            /\ UNCHANGED <<message, clientsCopy, failedClients, attempts>>
       ELSE Return
    /\ UNCHANGED <<clients, broadcast, regPending, unregPending, mutex, sub,
                   client, closes, received, sent, calls, lastOp, diagPc>>
    /\ UNCHANGED ledgerVars
    /\ UNCHANGED handlerVars

\* variant: a filter that names no event type at all is taken as "all"
SkipsKnownOnly(messageType, filter) ==
    /\ filter # <<>>
    /\ ~matchesFilter(messageType, filter)
    /\ \E t \in EventTypes : matchesFilter(t, filter)

\* variant: every connection is passed over
SkipsEveryone(messageType, filter) == TRUE

\* if filter != "" && !matchesFilter(message.Type, filter) { continue }
Skips(messageType, filter) == filter # <<>> /\ ~matchesFilter(messageType, filter)

\* variant: without the write deadline a write may never return
WriteResultsNoDeadline(c) == {}

\* a write to a connection the hub has closed fails; any other write may
\* succeed, fail, or run into the 2 s write deadline
WriteResults(c) == IF closes[c] > 0 THEN {FALSE} ELSE {TRUE, FALSE}

\* failedClients = append(failedClients, client)
MarkFailed(failed, c) == Append(failed, c)

\* variant: a connection whose write fails is closed and deleted at once
DeliverRemoving(c) ==
    /\ hubPc = "deliver"
    /\ c \in todo
    /\ todo' = todo \ {c}
    /\ IF Skips(message.Type, clientsCopy[c])
       THEN UNCHANGED <<attempts, received, failedClients, clients, closes>>
       ELSE /\ attempts' = [attempts EXCEPT ![c] = @ + 1]
            /\ \E written \in WriteResults(c) :
                 IF written
                 THEN /\ received' = [received EXCEPT ![c] = Append(@, message)]
                      /\ UNCHANGED <<failedClients, clients, closes>>
                 ELSE /\ clients' = MapDelete(clients, {c})
                      /\ closes' = [closes EXCEPT ![c] = @ + 1]
                      /\ UNCHANGED <<received, failedClients>>
    /\ UNCHANGED <<broadcast, regPending, unregPending, mutex, hubPc,
                   sub, client, message, clientsCopy, sent, calls,
                   lastOp, diagPc>>
    /\ UNCHANGED ledgerVars
    /\ UNCHANGED handlerVars

\* one iteration of  for client, filter := range clientsCopy  (any order)
Deliver(c) ==
    /\ hubPc = "deliver"
    /\ c \in todo
    /\ todo' = todo \ {c}
    /\ IF Skips(message.Type, clientsCopy[c])
       THEN UNCHANGED <<attempts, received, failedClients>>
       ELSE /\ attempts' = [attempts EXCEPT ![c] = @ + 1]
            /\ \E written \in WriteResults(c) :
                 IF written
                 THEN /\ received' = [received EXCEPT ![c] = Append(@, message)]
                      /\ UNCHANGED failedClients
                 ELSE /\ failedClients' = MarkFailed(failedClients, c)
                      /\ UNCHANGED received
    /\ UNCHANGED <<clients, broadcast, regPending, unregPending, mutex, hubPc,
                   sub, client, message, clientsCopy, closes, sent, calls,
                   lastOp, diagPc>>
    /\ UNCHANGED ledgerVars
    /\ UNCHANGED handlerVars

\* variant: the removal runs after every pass (len(failedClients) >= 0)
DeliverDoneAlwaysRemoves ==
    /\ hubPc = "deliver"
    /\ todo = {}
    /\ hubPc' = "remove"
    /\ UNCHANGED <<message, clientsCopy, todo, failedClients, attempts>>
    /\ UNCHANGED <<clients, broadcast, regPending, unregPending, mutex, sub,
                   client, closes, received, sent, calls, lastOp, diagPc>>
    /\ UNCHANGED ledgerVars
    /\ UNCHANGED handlerVars

\* the range loop is over; if len(failedClients) > 0 { h.mutex.Lock() ... }
DeliverDone ==
    /\ hubPc = "deliver"
    /\ todo = {}
    /\ IF Len(failedClients) > 0
       THEN /\ hubPc' = "remove"
            /\ UNCHANGED <<message, clientsCopy, todo, failedClients, attempts>>
       ELSE Return
    /\ UNCHANGED <<clients, broadcast, regPending, unregPending, mutex, sub,
                   client, closes, received, sent, calls, lastOp, diagPc>>
    /\ UNCHANGED ledgerVars
    /\ UNCHANGED handlerVars

RemoveLock ==
    /\ hubPc = "remove"
    /\ CanLock
    /\ mutex' = [mutex EXCEPT !.w = "hub"]
    /\ hubPc' = "removeLocked"
    /\ UNCHANGED <<clients, broadcast, regPending, unregPending, sub, client,
                   message, clientsCopy, todo, failedClients, closes, received,
                   attempts, sent, calls, lastOp, diagPc>>
    /\ UNCHANGED ledgerVars
    /\ UNCHANGED handlerVars

\* for _, client := range failedClients { if present { delete; Close } }
RemoveFailed ==
    /\ hubPc = "removeLocked"
    /\ clients' = RemoveClients(clients, Range(failedClients))
    /\ closes' = CloseClients(closes, clients, Range(failedClients))
    /\ lastOp' = [c \in Conns |->
                    IF c \in Range(failedClients) /\ c \in DOMAIN clients
                    THEN "dropped" ELSE lastOp[c]]
    /\ mutex' = [mutex EXCEPT !.w = "none"]
    /\ Return
    /\ UNCHANGED <<broadcast, regPending, unregPending, sub, client, received,
                   sent, calls, diagPc>>
    /\ UNCHANGED ledgerVars
    /\ UNCHANGED handlerVars

\* ------------------------------------------------------------------ ledger
\* variant: a record exactly seven days old is kept
AfterOrAt(r, sevenDaysAgo) == r.Timestamp >= sevenDaysAgo

\* r.Timestamp.After(sevenDaysAgo)
After(r, sevenDaysAgo) == r.Timestamp > sevenDaysAgo

\* the loop of AddSessionRecord: pruned = the records after sevenDaysAgo
RECURSIVE Pruned(_, _)
Pruned(recs, sevenDaysAgo) ==
    IF recs = <<>>
    THEN <<>>
    ELSE IF After(Head(recs), sevenDaysAgo)
         THEN <<Head(recs)>> \o Pruned(Tail(recs), sevenDaysAgo)
         ELSE Pruned(Tail(recs), sevenDaysAgo)

\* total += r.Duration for the records after sevenDaysAgo
RECURSIVE Total(_, _)
Total(recs, sevenDaysAgo) ==
    IF recs = <<>>
    THEN 0
    ELSE (IF After(Head(recs), sevenDaysAgo) THEN Head(recs).Duration ELSE 0)
         + Total(Tail(recs), sevenDaysAgo)

\* recs := h.weeklyRecords[clientKey] (nil when the key is missing)
Records(k) == IF k \in DOMAIN weeklyRecords THEN weeklyRecords[k] ELSE <<>>

\* variants: the new record is not counted; the unpruned slice is stored
AppendedNone(recs, now, duration) == recs
StoredUnpruned(recs, sevenDaysAgo) == recs

\* variant: the new record is put in front of the stored ones
AppendedFront(recs, now, duration) ==
    <<[Timestamp |-> now, Duration |-> duration]>> \o recs

\* recs = append(recs, SessionRecord{Timestamp: now, Duration: duration})
Appended(recs, now, duration) ==
    Append(recs, [Timestamp |-> now, Duration |-> duration])

\* h.weeklyRecords[clientKey] = pruned
Stored(recs, sevenDaysAgo) == Pruned(recs, sevenDaysAgo)

\* time passes
Tick ==
    /\ \E t \in Instants : t > clock /\ clock' = t
    /\ UNCHANGED <<weeklyRecords, opPc, opArgs, ret, history, adds>>
    /\ UNCHANGED <<hubVars, mutex>>
    /\ UNCHANGED handlerVars

\* AddSessionRecord(clientKey, duration): now := time.Now()
AddSessionRecordCall(g, k, d) ==
    /\ opPc[g] = "idle"
    /\ adds < MaxAdds
    /\ adds' = adds + 1
    /\ opArgs' = [opArgs EXCEPT ![g] = [clientKey |-> k, duration |-> d, now |-> clock]]
    /\ opPc' = [opPc EXCEPT ![g] = "add"]
    /\ UNCHANGED <<weeklyRecords, clock, ret, history>>
    /\ UNCHANGED <<hubVars, mutex>>
    /\ UNCHANGED handlerVars

\* h.mutex.Lock()
AddSessionRecordLock(g) ==
    /\ opPc[g] = "add"
    /\ CanLock
    /\ mutex' = [mutex EXCEPT !.w = g]
    /\ opPc' = [opPc EXCEPT ![g] = "addLocked"]
    /\ UNCHANGED <<weeklyRecords, clock, opArgs, ret, history, adds>>
    /\ UNCHANGED hubVars
    /\ UNCHANGED handlerVars

\* append, prune, store, return total (the deferred Unlock runs on return)
AddSessionRecordReturn(g) ==
    /\ opPc[g] = "addLocked"
    /\ LET clientKey == opArgs[g].clientKey
           sevenDaysAgo == opArgs[g].now - Week
           recs == Appended(Records(clientKey), opArgs[g].now, opArgs[g].duration)
       IN  /\ weeklyRecords' = MapSet(weeklyRecords, clientKey, Stored(recs, sevenDaysAgo))
           /\ ret' = [op |-> "add", total |-> Total(recs, sevenDaysAgo), totals |-> <<>>]
           /\ history' = [history EXCEPT ![clientKey] =
                            Append(@, [now |-> opArgs[g].now, d |-> opArgs[g].duration])]
    /\ mutex' = [mutex EXCEPT !.w = "none"]
    /\ opPc' = [opPc EXCEPT ![g] = "idle"]
    /\ opArgs' = [opArgs EXCEPT ![g] = NoArgs]
    /\ UNCHANGED <<clock, adds>>
    /\ UNCHANGED hubVars
    /\ UNCHANGED handlerVars

\* GetWeeklyTotal(clientKey): now := time.Now()
GetWeeklyTotalCall(g, k) ==
    /\ opPc[g] = "idle"
    /\ opArgs' = [opArgs EXCEPT ![g] = [clientKey |-> k, duration |-> 0, now |-> clock]]
    /\ opPc' = [opPc EXCEPT ![g] = "get"]
    /\ UNCHANGED <<weeklyRecords, clock, ret, history, adds>>
    /\ UNCHANGED <<hubVars, mutex>>
    /\ UNCHANGED handlerVars

\* h.mutex.RLock()
GetWeeklyTotalRLock(g) ==
    /\ opPc[g] = "get"
    /\ CanRLock
    /\ mutex' = [mutex EXCEPT !.r = @ \cup {g}]
    /\ opPc' = [opPc EXCEPT ![g] = "getLocked"]
    /\ UNCHANGED <<weeklyRecords, clock, opArgs, ret, history, adds>>
    /\ UNCHANGED hubVars
    /\ UNCHANGED handlerVars

\* variant: the window is two weeks long
GetWeeklyTotalFortnight(k, now) == Total(Records(k), now - (Week + Week))

\* sum the records after sevenDaysAgo, return (the deferred RUnlock runs)
GetWeeklyTotal(k, now) == Total(Records(k), now - Week)

GetWeeklyTotalReturn(g) ==
    /\ opPc[g] = "getLocked"
    /\ ret' = [op |-> "get", totals |-> <<>>,
               total |-> GetWeeklyTotal(opArgs[g].clientKey, opArgs[g].now)]
    /\ mutex' = [mutex EXCEPT !.r = @ \ {g}]
    /\ opPc' = [opPc EXCEPT ![g] = "idle"]
    /\ opArgs' = [opArgs EXCEPT ![g] = NoArgs]
    /\ UNCHANGED <<weeklyRecords, clock, history, adds>>
    /\ UNCHANGED hubVars
    /\ UNCHANGED handlerVars

\* GetAllWeeklyTotals(): now := time.Now()
GetAllWeeklyTotalsCall(g) ==
    /\ opPc[g] = "idle"
    /\ opArgs' = [opArgs EXCEPT ![g] = [clientKey |-> "none", duration |-> 0, now |-> clock]]
    /\ opPc' = [opPc EXCEPT ![g] = "all"]
    /\ UNCHANGED <<weeklyRecords, clock, ret, history, adds>>
    /\ UNCHANGED <<hubVars, mutex>>
    /\ UNCHANGED handlerVars

\* h.mutex.RLock()
GetAllWeeklyTotalsRLock(g) ==
    /\ opPc[g] = "all"
    /\ CanRLock
    /\ mutex' = [mutex EXCEPT !.r = @ \cup {g}]
    /\ opPc' = [opPc EXCEPT ![g] = "allLocked"]
    /\ UNCHANGED <<weeklyRecords, clock, opArgs, ret, history, adds>>
    /\ UNCHANGED hubVars
    /\ UNCHANGED handlerVars

\* variant: only a total of exactly zero is left out
ListedNonZero(total) == total # 0

\* if total > 0 { totals[clientKey] = total }
Listed(total) == total > 0

\* for clientKey, records := range h.weeklyRecords { ... }
GetAllWeeklyTotals(now) ==
    [k \in {x \in DOMAIN weeklyRecords : Listed(Total(weeklyRecords[x], now - Week))}
        |-> Total(weeklyRecords[k], now - Week)]

GetAllWeeklyTotalsReturn(g) ==
    /\ opPc[g] = "allLocked"
    /\ ret' = [op |-> "all", total |-> 0, totals |-> GetAllWeeklyTotals(opArgs[g].now)]
    /\ mutex' = [mutex EXCEPT !.r = @ \ {g}]
    /\ opPc' = [opPc EXCEPT ![g] = "idle"]
    /\ opArgs' = [opArgs EXCEPT ![g] = NoArgs]
    /\ UNCHANGED <<weeklyRecords, clock, history, adds>>
    /\ UNCHANGED hubVars
    /\ UNCHANGED handlerVars

\* ------------------------------------------------------ trackingWSHandler
trackVars == <<trackPc, report, trackNow, weekSeconds, reports>>
connVars == <<handler, connPc, samplers, pingPc>>

\* variant: only a negative duration is rejected
RejectsNegative(r) == ~r.parsed \/ r.DurationSeconds < 0

\* json.Unmarshal fails, or session.DurationSeconds <= 0: continue
Rejects(r) == ~r.parsed \/ r.DurationSeconds <= 0

\* BroadcastMessage{Type: "session", Data: session}
SessionEvent(t) ==
    [Type |-> Session, src |-> t, n |-> reports[t], ok |-> TRUE,
     data |-> report[t].DurationSeconds]

\* variant: the summary carries the duration of the report
SummaryEventOfDuration(t) ==
    [Type |-> WeeklySummary, src |-> t, n |-> reports[t], ok |-> TRUE,
     data |-> report[t].DurationSeconds]

\* BroadcastMessage{Type: "weekly_summary",
\*                  Data: WeeklySummary{Client: clientIP, WeekSeconds: weekSeconds}}
SummaryEvent(t) ==
    [Type |-> WeeklySummary, src |-> t, n |-> reports[t], ok |-> TRUE,
     data |-> weekSeconds[t]]

\* conn.ReadMessage returns a message: parse it, check the duration and
\* enter hub.AddSessionRecord (now := time.Now())
TrackRead(t, r) ==
    /\ trackPc[t] = "read"
    /\ reports[t] < MaxReports
    /\ reports' = [reports EXCEPT ![t] = @ + 1]
    /\ report' = [report EXCEPT ![t] = r]
    /\ IF Rejects(r)
       THEN UNCHANGED <<trackPc, trackNow>>
       ELSE /\ trackPc' = [trackPc EXCEPT ![t] = "add"]
            /\ trackNow' = [trackNow EXCEPT ![t] = clock]
    /\ UNCHANGED weekSeconds
    /\ UNCHANGED <<hubVars, mutex, ledgerVars, connVars>>

\* conn.ReadMessage returns an error: break
TrackDisconnect(t) ==
    /\ trackPc[t] = "read"
    /\ trackPc' = [trackPc EXCEPT ![t] = "closed"]
    /\ UNCHANGED <<report, trackNow, weekSeconds, reports>>
    /\ UNCHANGED <<hubVars, mutex, ledgerVars, connVars>>

\* AddSessionRecord: h.mutex.Lock()
TrackAddLock(t) ==
    /\ trackPc[t] = "add"
    /\ CanLock
    /\ mutex' = [mutex EXCEPT !.w = t]
    /\ trackPc' = [trackPc EXCEPT ![t] = "addLocked"]
    /\ UNCHANGED <<report, trackNow, weekSeconds, reports>>
    /\ UNCHANGED <<hubVars, ledgerVars, connVars>>

\* weekSeconds := hub.AddSessionRecord(clientIP, session.DurationSeconds)
TrackAddReturn(t) ==
    /\ trackPc[t] = "addLocked"
    /\ LET clientKey == TrackIP[t]
           sevenDaysAgo == trackNow[t] - Week
           recs == Appended(Records(clientKey), trackNow[t], report[t].DurationSeconds)
       IN  /\ weeklyRecords' = MapSet(weeklyRecords, clientKey, Stored(recs, sevenDaysAgo))
           /\ weekSeconds' = [weekSeconds EXCEPT ![t] = Total(recs, sevenDaysAgo)]
           /\ ret' = [op |-> "add", total |-> Total(recs, sevenDaysAgo), totals |-> <<>>]
           /\ history' = [history EXCEPT ![clientKey] =
                            Append(@, [now |-> trackNow[t], d |-> report[t].DurationSeconds])]
    /\ mutex' = [mutex EXCEPT !.w = "none"]
    /\ trackPc' = [trackPc EXCEPT ![t] = "session"]
    /\ UNCHANGED <<report, trackNow, reports>>
    /\ UNCHANGED <<clock, opPc, opArgs, adds>>
    /\ UNCHANGED <<hubVars, connVars>>

\* hub.broadcast <- BroadcastMessage{Type: "session", ...}
TrackSendSession(t) ==
    /\ trackPc[t] = "session"
    /\ Len(broadcast) < MaxQueue
    /\ broadcast' = ChanSend(broadcast, SessionEvent(t))
    /\ trackPc' = [trackPc EXCEPT ![t] = "summary"]
    /\ UNCHANGED <<report, trackNow, weekSeconds, reports>>
    /\ UNCHANGED <<clients, regPending, unregPending, mutex, hubPc, sub, client,
                   message, clientsCopy, todo, failedClients, closes, received,
                   attempts, sent, calls, lastOp, diagPc>>
    /\ UNCHANGED <<ledgerVars, connVars>>

\* hub.broadcast <- BroadcastMessage{Type: "weekly_summary", ...}, then the
\* ack is written to the tracking client: break if that write fails
TrackSendSummary(t, ackOk) ==
    /\ trackPc[t] = "summary"
    /\ Len(broadcast) < MaxQueue
    /\ broadcast' = ChanSend(broadcast, SummaryEvent(t))
    /\ trackPc' = [trackPc EXCEPT ![t] = IF ackOk THEN "read" ELSE "closed"]
    /\ UNCHANGED <<report, trackNow, weekSeconds, reports>>
    /\ UNCHANGED <<clients, regPending, unregPending, mutex, hubPc, sub, client,
                   message, clientsCopy, todo, failedClients, closes, received,
                   attempts, sent, calls, lastOp, diagPc>>
    /\ UNCHANGED <<ledgerVars, connVars>>

\* ------------------------------------------------------- monitorWSHandler
hubRest == <<clients, mutex, hubPc, sub, client, message, clientsCopy, todo,
             failedClients, closes, received, attempts, calls, lastOp, diagPc>>

\* hub.register <- Subscription{Conn: conn, Filter: "metrics"}
MonitorConnect(c) ==
    /\ connPc[c] = "none"
    /\ handler' = [handler EXCEPT ![c] = "monitor"]
    /\ connPc' = [connPc EXCEPT ![c] = "register"]
    /\ regPending' = regPending \cup {[Conn |-> c, Filter |-> FilterMonitor]}
    /\ UNCHANGED <<broadcast, unregPending, sent, hubRest>>
    /\ UNCHANGED <<ledgerVars, trackVars, samplers, pingPc>>

\* the hub has received the subscription: go func() { ... }() starts the
\* sampler, the handler enters its read loop
MonitorStart(c) ==
    /\ handler[c] = "monitor"
    /\ connPc[c] = "register"
    /\ \A x \in regPending : x.Conn # c
    /\ samplers' = [samplers EXCEPT ![c] = TRUE]
    /\ connPc' = [connPc EXCEPT ![c] = "read"]
    /\ UNCHANGED <<broadcast, regPending, unregPending, sent, hubRest>>
    /\ UNCHANGED <<ledgerVars, trackVars, handler, pingPc>>

\* for range ticker.C { ...; hub.broadcast <- BroadcastMessage{Type: "metrics"} }
\* the loop has no exit: ticker.C is never closed
SamplerSubmit(c, ok) ==
    /\ samplers[c]
    /\ sent[Sampler] < MaxSubmit
    /\ Len(broadcast) < MaxQueue
    /\ sent' = [sent EXCEPT ![Sampler] = @ + 1]
    /\ broadcast' = ChanSend(broadcast,
                             [Type |-> Metrics, src |-> Sampler, n |-> sent[Sampler] + 1,
                              ok |-> ok, data |-> 0])
    /\ UNCHANGED <<regPending, unregPending, hubRest>>
    /\ UNCHANGED <<ledgerVars, handlerVars>>

\* conn.ReadMessage returns an error: hub.unregister <- conn
MonitorDisconnect(c) ==
    /\ handler[c] = "monitor"
    /\ connPc[c] = "read"
    /\ unregPending' = unregPending \cup {c}
    /\ connPc' = [connPc EXCEPT ![c] = "unregister"]
    /\ UNCHANGED <<broadcast, regPending, sent, hubRest>>
    /\ UNCHANGED <<ledgerVars, trackVars, handler, samplers, pingPc>>

\* the hub has received the connection: break, the handler returns
MonitorReturn(c) ==
    /\ handler[c] = "monitor"
    /\ connPc[c] = "unregister"
    /\ c \notin unregPending
    /\ connPc' = [connPc EXCEPT ![c] = "gone"]
    /\ UNCHANGED <<broadcast, regPending, unregPending, sent, hubRest>>
    /\ UNCHANGED <<ledgerVars, trackVars, handler, samplers, pingPc>>

\* ------------------------------------------------------ externalWSHandler
\* hub.register <- Subscription{Conn: conn, Filter: "session,weekly_summary"}
ExternalConnect(c) ==
    /\ connPc[c] = "none"
    /\ handler' = [handler EXCEPT ![c] = "external"]
    /\ connPc' = [connPc EXCEPT ![c] = "register"]
    /\ regPending' = regPending \cup {[Conn |-> c, Filter |-> FilterExternal]}
    /\ UNCHANGED <<broadcast, unregPending, sent, hubRest>>
    /\ UNCHANGED <<ledgerVars, trackVars, samplers, pingPc>>

\* the hub has received the subscription: the ping goroutine starts, the
\* handler enters its read loop
ExternalStart(c) ==
    /\ handler[c] = "external"
    /\ connPc[c] = "register"
    /\ \A x \in regPending : x.Conn # c
    /\ pingPc' = [pingPc EXCEPT ![c] = "wait"]
    /\ connPc' = [connPc EXCEPT ![c] = "read"]
    /\ UNCHANGED <<broadcast, regPending, unregPending, sent, hubRest>>
    /\ UNCHANGED <<ledgerVars, trackVars, handler, samplers>>

\* case <-ticker.C: conn.SetWriteDeadline(...); conn.WriteMessage(PingMessage)
\* begins
PingBegin(c) ==
    /\ pingPc[c] = "wait"
    /\ connPc[c] = "read"
    /\ pingPc' = [pingPc EXCEPT ![c] = "write"]
    /\ UNCHANGED <<broadcast, regPending, unregPending, sent, hubRest>>
    /\ UNCHANGED <<ledgerVars, trackVars, handler, connPc, samplers>>

\* conn.WriteMessage returns: the goroutine returns if the write failed
PingEnd(c, ok) ==
    /\ pingPc[c] = "write"
    /\ ok \in WriteResults(c)
    /\ pingPc' = [pingPc EXCEPT ![c] = IF ok THEN "wait" ELSE "done"]
    /\ UNCHANGED <<broadcast, regPending, unregPending, sent, hubRest>>
    /\ UNCHANGED <<ledgerVars, trackVars, handler, connPc, samplers>>

\* case <-done: return
PingStop(c) ==
    /\ pingPc[c] = "wait"
    /\ connPc[c] \in {"unregister", "gone"}
    /\ pingPc' = [pingPc EXCEPT ![c] = "done"]
    /\ UNCHANGED <<broadcast, regPending, unregPending, sent, hubRest>>
    /\ UNCHANGED <<ledgerVars, trackVars, handler, connPc, samplers>>

\* conn.ReadMessage returns an error: return; the deferred calls close done
\* and send hub.unregister <- conn
ExternalDisconnect(c) ==
    /\ handler[c] = "external"
    /\ connPc[c] = "read"
    /\ unregPending' = unregPending \cup {c}
    /\ connPc' = [connPc EXCEPT ![c] = "unregister"]
    /\ UNCHANGED <<broadcast, regPending, sent, hubRest>>
    /\ UNCHANGED <<ledgerVars, trackVars, handler, samplers, pingPc>>

\* the hub has received the connection: conn.Close(), the handler is done
ExternalReturn(c) ==
    /\ handler[c] = "external"
    /\ connPc[c] = "unregister"
    /\ c \notin unregPending
    /\ connPc' = [connPc EXCEPT ![c] = "gone"]
    /\ UNCHANGED <<broadcast, regPending, unregPending, sent, hubRest>>
    /\ UNCHANGED <<ledgerVars, trackVars, handler, samplers, pingPc>>

\* ------------------------------------------------------------ specification
Next ==
    \/ \E c \in Conns, f \in Filters : Register(c, f)
    \/ \E c \in Conns : Unregister(c)
    \/ \E p \in Producers, t \in EventTypes, ok \in BOOLEAN : Submit(p, t, ok)
    \/ RecvRegister
    \/ RegisterLock
    \/ RegisterApply
    \/ RecvUnregister
    \/ UnregisterLock
    \/ UnregisterApply
    \/ RecvBroadcast
    \/ SnapshotRLock
    \/ SnapshotCopy
    \/ Marshal
    \/ \E c \in Conns : Deliver(c)
    \/ DeliverDone
    \/ RemoveLock
    \/ RemoveFailed

Spec == Init /\ [][Next]_vars

\* the hub with a connection registered by the monitor handler ("metrics"),
\* with no filter, or with a filter that names no event type, next to a
\* connection with no filter; every event can be marshalled
NextFilters ==
    \/ \E f \in HandlerFilters : Register("c1", f)
    \/ Register("c2", FilterAll)
    \/ \E p \in Producers, t \in EventTypes : Submit(p, t, TRUE)
    \/ RecvRegister
    \/ RegisterLock
    \/ RegisterApply
    \/ RecvBroadcast
    \/ SnapshotRLock
    \/ SnapshotCopy
    \/ Marshal
    \/ \E c \in Conns : Deliver(c)
    \/ DeliverDone
    \/ RemoveLock
    \/ RemoveFailed

SpecFilters == Init /\ [][NextFilters]_vars

\* the hub, the diagnostics handlers and the ledger methods together, as
\* they share h.mutex: one connection filter, one connection that
\* disconnects, the sampler as the only producer, /stats as the diagnostics
\* request, one session report and one reader of the weekly total
NextShared ==
    \/ \E c \in Conns : Register(c, FilterAll)
    \/ Unregister("c1")
    \/ Submit(Sampler, Metrics, TRUE)
    \/ RecvRegister
    \/ RegisterLock
    \/ RegisterApply
    \/ RecvUnregister
    \/ UnregisterLock
    \/ UnregisterApply
    \/ RecvBroadcast
    \/ SnapshotRLock
    \/ SnapshotCopy
    \/ Marshal
    \/ \E c \in Conns : Deliver(c)
    \/ DeliverDone
    \/ RemoveLock
    \/ RemoveFailed
    \/ StatsRLock
    \/ StatsReturn
    \/ AddSessionRecordCall("g1", "10.0.0.5", 50)
    \/ AddSessionRecordLock("g1")
    \/ AddSessionRecordReturn("g1")
    \/ GetWeeklyTotalCall("g2", "10.0.0.5")
    \/ GetWeeklyTotalRLock("g2")
    \/ GetWeeklyTotalReturn("g2")

SpecShared == Init /\ [][NextShared]_vars

\* the hub under fair scheduling: the goroutine of Hub.run keeps running
\* (weak fairness of its steps) and its select picks among the ready cases
\* at random, so a case that is ready again and again is taken (strong
\* fairness of each receive)
NextLive ==
    \/ \E c \in Conns : Register(c, FilterAll)
    \/ \E c \in Conns : Unregister(c)
    \/ \E ok \in BOOLEAN : Submit(Sampler, Metrics, ok)
    \/ RecvRegister
    \/ RegisterLock
    \/ RegisterApply
    \/ RecvUnregister
    \/ UnregisterLock
    \/ UnregisterApply
    \/ RecvBroadcast
    \/ SnapshotRLock
    \/ SnapshotCopy
    \/ Marshal
    \/ \E c \in Conns : Deliver(c)
    \/ DeliverDone
    \/ RemoveLock
    \/ RemoveFailed

HubRuns ==
    \/ RegisterLock
    \/ RegisterApply
    \/ UnregisterLock
    \/ UnregisterApply
    \/ SnapshotRLock
    \/ SnapshotCopy
    \/ Marshal
    \/ \E c \in Conns : Deliver(c)
    \/ DeliverDone
    \/ RemoveLock
    \/ RemoveFailed

SpecLive ==
    /\ Init
    /\ [][NextLive]_vars
    /\ WF_vars(HubRuns)
    /\ SF_vars(RecvRegister)
    /\ SF_vars(RecvUnregister)
    /\ SF_vars(RecvBroadcast)

\* the same hub and callers under any scheduling
SpecSampled == Init /\ [][NextLive]_vars

\* the tracking clients, the hub, and a subscriber of the session events
\* that connects through /ws/external
NextTrack ==
    \/ ExternalConnect("c1")
    \/ ExternalStart("c1")
    \/ \E r \in Reports : TrackRead("t1", r)
    \/ TrackRead("t2", [parsed |-> TRUE, DurationSeconds |-> 50])
    \/ \E t \in TrackConns : TrackDisconnect(t)
    \/ \E t \in TrackConns : TrackAddLock(t)
    \/ \E t \in TrackConns : TrackAddReturn(t)
    \/ \E t \in TrackConns : TrackSendSession(t)
    \/ \E t \in TrackConns, ackOk \in BOOLEAN : TrackSendSummary(t, ackOk)
    \/ RecvRegister
    \/ RegisterLock
    \/ RegisterApply
    \/ RecvBroadcast
    \/ SnapshotRLock
    \/ SnapshotCopy
    \/ Marshal
    \/ \E c \in Conns : Deliver(c)
    \/ DeliverDone
    \/ RemoveLock
    \/ RemoveFailed

SpecTrack == Init /\ [][NextTrack]_vars

\* the ledger, the clock and the /stats handler
NextStats ==
    \/ Tick
    \/ \E k \in Keys, d \in {50, 100} : AddSessionRecordCall("g1", k, d)
    \/ AddSessionRecordLock("g1")
    \/ AddSessionRecordReturn("g1")
    \/ StatsRLock
    \/ StatsReturn

SpecStats == Init /\ [][NextStats]_vars

HubNext ==
    \/ RecvRegister
    \/ RegisterLock
    \/ RegisterApply
    \/ RecvUnregister
    \/ UnregisterLock
    \/ UnregisterApply
    \/ RecvBroadcast
    \/ SnapshotRLock
    \/ SnapshotCopy
    \/ Marshal
    \/ \E c \in Conns : Deliver(c)
    \/ DeliverDone
    \/ RemoveLock
    \/ RemoveFailed

\* the /ws/monitor clients, their samplers and the hub
NextMonitor ==
    \/ \E c \in Conns : MonitorConnect(c)
    \/ \E c \in Conns : MonitorStart(c)
    \/ \E c \in Conns, ok \in BOOLEAN : SamplerSubmit(c, ok)
    \/ \E c \in Conns : MonitorDisconnect(c)
    \/ \E c \in Conns : MonitorReturn(c)
    \/ HubNext

SpecMonitor == Init /\ [][NextMonitor]_vars

\* the /ws/external clients, their ping goroutines, a producer of session
\* events and the hub
NextExternal ==
    \/ \E c \in Conns : ExternalConnect(c)
    \/ \E c \in Conns : ExternalStart(c)
    \/ \E c \in Conns : PingBegin(c)
    \/ \E c \in Conns, ok \in BOOLEAN : PingEnd(c, ok)
    \/ \E c \in Conns : PingStop(c)
    \/ \E c \in Conns : ExternalDisconnect(c)
    \/ \E c \in Conns : ExternalReturn(c)
    \/ \E t \in EventTypes : Submit(Tracker, t, TRUE)
    \/ HubNext

SpecExternal == Init /\ [][NextExternal]_vars

\* the whole system: monitor clients and their samplers, the hub, the
\* diagnostics readers and a caller of the ledger
NextSystem ==
    \/ \E c \in Conns : MonitorConnect(c)
    \/ \E c \in Conns : MonitorStart(c)
    \/ \E c \in Conns, ok \in BOOLEAN : SamplerSubmit(c, ok)
    \/ \E c \in Conns : MonitorDisconnect(c)
    \/ \E c \in Conns : MonitorReturn(c)
    \/ HubNext
    \/ GetClientCountRLock
    \/ GetClientCountReturn
    \/ HealthRLock
    \/ HealthReturn
    \/ StatsRLock
    \/ StatsReturn
    \/ AddSessionRecordCall("g1", "10.0.0.5", 50)
    \/ AddSessionRecordLock("g1")
    \/ AddSessionRecordReturn("g1")

SpecSystem == Init /\ [][NextSystem]_vars

\* the ledger and the clock: both goroutines record sessions (the tracking
\* handlers), the second one also reads the totals
NextLedger ==
    \/ Tick
    \/ \E g \in Workers, k \in Keys, d \in Durations : AddSessionRecordCall(g, k, d)
    \/ \E g \in Workers : AddSessionRecordLock(g)
    \/ \E g \in Workers : AddSessionRecordReturn(g)
    \/ \E k \in Keys : GetWeeklyTotalCall("g2", k)
    \/ GetWeeklyTotalRLock("g2")
    \/ GetWeeklyTotalReturn("g2")
    \/ GetAllWeeklyTotalsCall("g2")
    \/ GetAllWeeklyTotalsRLock("g2")
    \/ GetAllWeeklyTotalsReturn("g2")

SpecLedger == Init /\ [][NextLedger]_vars

\* ================================================================== claims
\* What the filter specification asks for, stated on positions of the text:
\* a token is a maximal comma-free stretch of the specification, and its
\* trimmed form is what is left between its outermost non-blank characters.
TokenStarts(f) == {1} \cup {k + 1 : k \in {x \in 1..Len(f) : f[x] = Comma}}
TokenEnds(f) == {Len(f)} \cup {k - 1 : k \in {x \in 1..Len(f) : f[x] = Comma}}

IsToken(f, i, j) ==
    /\ i \in TokenStarts(f)
    /\ j \in TokenEnds(f)
    /\ i <= j + 1
    /\ \A k \in i..j : f[k] # Comma

\* f[a..b] is f[i..j] without its leading and trailing blanks
IsTrimOf(f, i, j, a, b) ==
    /\ i <= a /\ a <= b + 1 /\ b <= j
    /\ \A k \in i..(a - 1) : f[k] \in Whitespace
    /\ \A k \in (b + 1)..j : f[k] \in Whitespace
    /\ a <= b => f[a] \notin Whitespace /\ f[b] \notin Whitespace

Accepts(f, t) ==
    \/ f = <<>>
    \/ \E i \in TokenStarts(f), j \in TokenEnds(f) :
          /\ IsToken(f, i, j)
          /\ \E a \in i..(j + 1) :
                /\ IsTrimOf(f, i, j, a, a + Len(t) - 1)
                /\ SubSeq(f, a, a + Len(t) - 1) = t

Expected(c) == IF Accepts(clientsCopy[c], message.Type) THEN 1 ELSE 0

InPass == hubPc \in {"deliver", "remove", "removeLocked"}

\* C1: in a delivery pass a write to a registered subscriber is attempted
\* iff its filter is empty or the event type is one of the trimmed
\* comma-separated tokens of the filter; a "session,weekly_summary"
\* subscriber is written session and weekly_summary events, never metrics.
C1_FilterDecidesDelivery ==
    InPass =>
        /\ clientsCopy = clients
        /\ \A c \in DOMAIN clients :
             /\ c \notin todo => attempts[c] = Expected(c)
             /\ c \in todo => attempts[c] = 0
             /\ (clients[c] = FilterExternal /\ c \notin todo) =>
                  (attempts[c] = 1 <=> message.Type \in {Session, WeeklySummary})

C1_Witness ==
    /\ hubPc = "deliver"
    /\ todo = {}
    /\ \E c, d \in DOMAIN clients :
         /\ clients[c] = FilterExternal /\ attempts[c] = 1
         /\ clients[d] = FilterSpaced /\ attempts[d] = 0

\* C2: when a pass in which a write failed completes, the subscriber is not
\* in the registry (so not counted by GetClientCount) and has been closed.
C2_FailedAbsentAfterPass ==
    [][(InPass /\ hubPc' = "select") =>
          \A c \in Range(failedClients) :
              /\ c \notin DOMAIN clients'
              /\ closes'[c] > 0
              /\ GetClientCount' <= Cardinality(Conns \ Range(failedClients))]_vars

C2_Witness ==
    /\ hubPc = "select"
    /\ \A c \in Conns :
         lastOp[c] = "dropped" /\ c \notin DOMAIN clients /\ closes[c] = 1

\* C3: a failed write does not end the pass: every subscriber of the
\* registry still gets its one attempt (or none, by its filter), and the
\* removal deletes exactly the failed subscribers, leaving every other
\* registration and filter as it was.
C3_FailureIsolated ==
    [][/\ (hubPc = "deliver" /\ todo = {} /\ Len(failedClients) > 0) =>
            \A c \in DOMAIN clients : attempts[c] = Expected(c)
       /\ (InPass /\ hubPc' = "select") =>
            /\ DOMAIN clients' = DOMAIN clients \ Range(failedClients)
            /\ \A c \in DOMAIN clients' : clients'[c] = clients[c]
            /\ sent' = sent /\ broadcast' = broadcast]_vars

C3_Witness ==
    /\ hubPc = "select"
    /\ \E c, d \in Conns :
         /\ lastOp[c] = "dropped" /\ c \notin DOMAIN clients
         /\ d \in DOMAIN clients /\ lastOp[d] = "register"
         /\ Len(received[d]) > Len(received[c])

\* C4: each subscriber receives the messages of one producer in the order
\* the producer submitted them.
C4_ProducerOrder ==
    \A c \in Conns : \A i, j \in 1..Len(received[c]) :
        (i < j /\ received[c][i].src = received[c][j].src) =>
            received[c][i].n < received[c][j].n

C4_Witness ==
    \E c \in Conns :
        /\ Len(received[c]) = 3
        /\ received[c][1].src = received[c][3].src
        /\ received[c][2].src # received[c][1].src

\* C5: a Register for a handle that is already registered leaves the number
\* of subscribers unchanged and leaves the handle with the new filter.
C5_RegisterIdempotent ==
    [][(hubPc = "registerLocked" /\ hubPc' # hubPc /\ sub.Conn \in DOMAIN clients) =>
          /\ GetClientCount' = GetClientCount
          /\ DOMAIN clients' = DOMAIN clients
          /\ clients'[sub.Conn] = sub.Filter
          /\ \A c \in DOMAIN clients \ {sub.Conn} : clients'[c] = clients[c]]_vars

C5_Witness ==
    /\ hubPc = "select"
    /\ \E c \in DOMAIN clients :
         /\ lastOp[c] = "reregister"
         /\ clients[c] = FilterExternal
         /\ GetClientCount = 1

\* C6: Unregister deletes and closes a registered handle; for an absent
\* handle it changes neither the registry nor any connection, and the hub
\* goes back to its select loop either way.
C6_UnregisterOrNoop ==
    [][(hubPc = "unregisterLocked" /\ hubPc' # hubPc) =>
          /\ hubPc' = "select"
          /\ IF client \in DOMAIN clients
             THEN /\ DOMAIN clients' = DOMAIN clients \ {client}
                  /\ \A c \in DOMAIN clients' : clients'[c] = clients[c]
                  /\ closes' = [closes EXCEPT ![client] = @ + 1]
             ELSE /\ clients' = clients
                  /\ closes' = closes]_vars

C6_Witness ==
    /\ hubPc = "select"
    /\ \E c, d \in Conns :
         /\ lastOp[c] = "absent" /\ closes[c] = 1
         /\ lastOp[d] = "absent" /\ closes[d] = 0

\* C7: once every Register and Unregister call has been processed, the
\* subscriber count is the number of handles whose registration was last
\* entered and not left, whatever the interleaving of the calls.
Registered == {c \in Conns : lastOp[c] \in {"register", "reregister"}}

C7_CountIsNetRegistered ==
    (hubPc = "select" /\ regPending = {} /\ unregPending = {}) =>
        /\ GetClientCount = Cardinality(Registered)
        /\ DOMAIN clients = Registered

C7_Witness ==
    /\ hubPc = "select" /\ regPending = {} /\ unregPending = {}
    /\ calls = MaxCalls
    /\ GetClientCount = 1
    /\ \E c \in Conns : lastOp[c] = "unregister"

\* ----------------------------------------------------------- ledger claims
RECURSIVE SumFirst(_, _)
SumFirst(h, n) == IF n = 0 THEN 0 ELSE h[n].d + SumFirst(h, n - 1)
Supplied(k) == SumFirst(history[k], Len(history[k]))

RECURSIVE SumDuration(_)
SumDuration(recs) ==
    IF recs = <<>> THEN 0 ELSE recs[Len(recs)].Duration + SumDuration(SubSeq(recs, 1, Len(recs) - 1))

\* every call on k so far, and a read at instant t, lie less than a week apart
WithinSpan(h, t) ==
    /\ \A i, j \in 1..Len(h) : h[i].now - h[j].now < Week
    /\ \A i \in 1..Len(h) : h[i].now - t < Week /\ t - h[i].now < Week

Returns(g, from) == opPc[g] = from /\ opPc'[g] = "idle"

\* C8: while all AddSessionRecord calls on a key lie within a span of less
\* than 7 days, each call returns the sum of every duration supplied for the
\* key so far, its own included, and GetWeeklyTotal read within the span
\* returns that sum; other keys' records do not contribute.
C8_TotalIsSumWithinSpan ==
    [][\A g \in Workers :
          LET k == opArgs[g].clientKey
              now == opArgs[g].now
          IN  /\ (Returns(g, "addLocked") /\ WithinSpan(history'[k], now)) =>
                    ret'.total = SumFirst(history'[k], Len(history'[k]))
              /\ (Returns(g, "getLocked") /\ WithinSpan(history[k], now)) =>
                    ret'.total = Supplied(k)]_vars

\* the second call on a key, a day after the first, has returned the sum of
\* the two durations
C8_Witness ==
    \E k \in Keys :
        /\ history[k] = <<[now |-> Week, d |-> 100], [now |-> Week + 1, d |-> 50]>>
        /\ ret.op = "add"
        /\ ret.total = 150
        /\ \A g \in Workers : opPc[g] = "idle"

\* C9: after AddSessionRecord(k, d) no record of k older than 7 days at the
\* call's "now" is stored, and the returned total is the sum of the records
\* that stay; 100 at day 0 then 50 at day 8 returns 50 and leaves one record.
C9_OldRecordPruned ==
    [][\A g \in Workers :
          LET k == opArgs[g].clientKey
              now == opArgs[g].now
          IN  Returns(g, "addLocked") =>
                /\ \A i \in 1..Len(weeklyRecords'[k]) :
                       weeklyRecords'[k][i].Timestamp >= now - Week
                /\ ret'.total = SumDuration(weeklyRecords'[k])
                /\ (/\ Records(k) = <<[Timestamp |-> 0, Duration |-> 100]>>
                    /\ now = Week + 1
                    /\ opArgs[g].duration = 50) =>
                       /\ ret'.total = 50
                       /\ weeklyRecords'[k] = <<[Timestamp |-> Week + 1, Duration |-> 50]>>]_vars

C9_Witness ==
    \E k \in Keys :
        /\ history[k] = <<[now |-> 0, d |-> 100], [now |-> Week + 1, d |-> 50]>>
        /\ Records(k) = <<[Timestamp |-> Week + 1, Duration |-> 50]>>
        /\ ret.op = "add"
        /\ ret.total = 50

\* C10 as stated: after any ledger operation every stored record of every
\* key is within the 7 days before the operation's "now", and the reported
\* total of a key is the sum of its stored records.
C10_AllRecordsInWindow ==
    [][\A g \in Workers :
          (Returns(g, "addLocked") \/ Returns(g, "getLocked") \/ Returns(g, "allLocked")) =>
             /\ \A k \in DOMAIN weeklyRecords' : \A i \in 1..Len(weeklyRecords'[k]) :
                    weeklyRecords'[k][i].Timestamp >= opArgs[g].now - Week
             /\ Returns(g, "getLocked") =>
                    ret'.total = SumDuration(Records(opArgs[g].clientKey))]_vars

\* C10 as amended: AddSessionRecord(k, d) leaves for k only records later
\* than 7 days before its "now", returns their sum and leaves every other
\* key alone; the reads change no record and report, per key, the sum of the
\* stored records later than 7 days before their "now".
C10_WindowOnWrittenKey ==
    [][\A g \in Workers :
          LET k == opArgs[g].clientKey
              now == opArgs[g].now
              Young(x) == {i \in 1..Len(Records(x)) : Records(x)[i].Timestamp > now - Week}
              YoungSum(x) == SumDuration([i \in 1..Len(Records(x)) |->
                                 IF i \in Young(x) THEN Records(x)[i]
                                 ELSE [Timestamp |-> 0, Duration |-> 0]])
          IN  /\ Returns(g, "addLocked") =>
                    /\ \A i \in 1..Len(weeklyRecords'[k]) :
                           weeklyRecords'[k][i].Timestamp > now - Week
                    /\ ret'.total = SumDuration(weeklyRecords'[k])
                    /\ \A o \in Keys \ {k} :
                           /\ o \in DOMAIN weeklyRecords' <=> o \in DOMAIN weeklyRecords
                           /\ o \in DOMAIN weeklyRecords => weeklyRecords'[o] = weeklyRecords[o]
              /\ Returns(g, "getLocked") =>
                    /\ weeklyRecords' = weeklyRecords
                    /\ ret'.total = YoungSum(k)
              /\ Returns(g, "allLocked") =>
                    /\ weeklyRecords' = weeklyRecords
                    /\ \A x \in DOMAIN ret'.totals : ret'.totals[x] = YoungSum(x)]_vars

\* a key's record of day 0 is still stored on day 8, after a write on the
\* other key, and GetWeeklyTotal does not count it
C10_Witness ==
    \E k \in Keys : \E o \in Keys \ {k} :
        /\ Records(o) = <<[Timestamp |-> 0, Duration |-> 100]>>
        /\ Records(k) = <<[Timestamp |-> Week + 1, Duration |-> 50]>>
        /\ Len(history[k]) = 1
        /\ ret.op = "get"
        /\ ret.total = 0
        /\ clock = Week + 1

\* the stored records of a sequence that are younger than 7 days at instant t
YoungOf(recs, t) == {i \in 1..Len(recs) : recs[i].Timestamp > t - Week}

RECURSIVE SumOver(_, _)
SumOver(recs, I) ==
    IF I = {}
    THEN 0
    ELSE LET i == CHOOSE x \in I : TRUE
         IN  recs[i].Duration + SumOver(recs, I \ {i})

\* the durations ever supplied for a key at an instant later than t - 7 days
RECURSIVE SuppliedSince(_, _, _)
SuppliedSince(h, n, t) ==
    IF n = 0
    THEN 0
    ELSE (IF h[n].now > t - Week THEN h[n].d ELSE 0) + SuppliedSince(h, n - 1, t)

\* C11: GetWeeklyTotal(k) changes neither the stored records of any key nor
\* the registry, and returns the sum of the durations of k's stored records
\* younger than 7 days at its "now": 0 for a key never written, and, for a
\* read not older than the writes, the same sum whether or not a write has
\* pruned the expired records.
C11_GetTotalReadOnly ==
    [][\A g \in Workers :
          LET k == opArgs[g].clientKey
              now == opArgs[g].now
          IN  Returns(g, "getLocked") =>
                /\ weeklyRecords' = weeklyRecords
                /\ clients' = clients
                /\ closes' = closes
                /\ ret'.total = SumOver(Records(k), YoungOf(Records(k), now))
                /\ k \notin DOMAIN weeklyRecords => ret'.total = 0
                /\ (\A i \in 1..Len(history[k]) : history[k][i].now <= now) =>
                       ret'.total = SuppliedSince(history[k], Len(history[k]), now)]_vars

\* a read at day 7 or later of a key whose only record, of day 0, is still
\* stored returned 0
C11_Witness ==
    /\ ret.op = "get"
    /\ ret.total = 0
    /\ \A k \in Keys : Records(k) = <<[Timestamp |-> 0, Duration |-> 100]>>
    /\ \A g \in Workers : opPc[g] = "idle"

\* C12 as stated: GetAllWeeklyTotals lists exactly the keys whose weekly
\* total is not zero, a negative total included, each with its total.
C12_ListsNonZeroTotals ==
    [][\A g \in Workers :
          Returns(g, "allLocked") =>
             /\ DOMAIN ret'.totals =
                   {k \in Keys : GetWeeklyTotal(k, opArgs[g].now) # 0}
             /\ \A k \in DOMAIN ret'.totals :
                   ret'.totals[k] = GetWeeklyTotal(k, opArgs[g].now)]_vars

\* C12 as amended: GetAllWeeklyTotals lists exactly the keys whose weekly
\* total is greater than zero, each with the total GetWeeklyTotal computes
\* at the same "now"; a key whose total is zero or negative is left out.
C12_ListsPositiveTotals ==
    [][\A g \in Workers :
          LET now == opArgs[g].now
          IN  Returns(g, "allLocked") =>
                /\ DOMAIN ret'.totals =
                      {k \in Keys : SumOver(Records(k), YoungOf(Records(k), now)) > 0}
                /\ \A k \in DOMAIN ret'.totals :
                      /\ ret'.totals[k] = SumOver(Records(k), YoungOf(Records(k), now))
                      /\ ret'.totals[k] = GetWeeklyTotal(k, now)
                /\ weeklyRecords' = weeklyRecords]_vars

C12_Witness ==
    \E k \in Keys : \E o \in Keys \ {k} :
        /\ Records(k) = <<[Timestamp |-> 0, Duration |-> 50]>>
        /\ Records(o) = <<[Timestamp |-> 0, Duration |-> -1]>>
        /\ clock = 0
        /\ ret.op = "all"
        /\ DOMAIN ret.totals = {k}
        /\ ret.totals[k] = 50

\* ------------------------------------------------------- hub claims, again
\* C13: when json.Marshal fails the pass ends there: no write is attempted
\* for that event, no subscriber is removed or closed, the registry and the
\* queue are left as they are (the event is not put back), no subscriber
\* ever receives the event, and the hub is back at its select.
C13_MarshalFailureAborts ==
    [][/\ ~message.ok =>
            /\ hubPc \in {"snapshot", "snapshotLocked", "marshal"}
            /\ attempts = [c \in Conns |-> 0]
       /\ (hubPc = "marshal" /\ ~message.ok /\ hubPc' # hubPc) =>
            /\ hubPc' = "select"
            /\ message' = NoMessage
            /\ clients' = clients
            /\ closes' = closes
            /\ received' = received
            /\ attempts' = [c \in Conns |-> 0]
            /\ broadcast' = broadcast
            /\ sent' = sent
       /\ \A c \in Conns : \A i \in 1..Len(received'[c]) : received'[c][i].ok]_vars

\* the failing event has been given a copy of a registry of two subscribers that
\* take every type, and another event waits in the queue
C13_Witness ==
    /\ hubPc = "marshal"
    /\ ~message.ok
    /\ DOMAIN clientsCopy = Conns
    /\ \A c \in Conns : clientsCopy[c] = FilterAll
    /\ broadcast # <<>>

\* C14: a producer with a message to send can complete  hub.broadcast <- m
\* exactly when the channel holds fewer messages than its capacity, whatever
\* the hub is doing; a full channel changes only by the hub's receive, which
\* frees a slot; every send appends its message and a message leaves the
\* channel only by being received by the hub.
CanSubmit(p) == ENABLED (\E t \in EventTypes, ok \in BOOLEAN : Submit(p, t, ok))

C14_SubmitBlocksOnlyWhenFull ==
    [][/\ \A p \in Producers :
             /\ sent[p] < MaxSubmit => (CanSubmit(p) <=> Len(broadcast) < MaxQueue)
             /\ sent'[p] # sent[p] =>
                   /\ Len(broadcast) < MaxQueue
                   /\ sent'[p] = sent[p] + 1
                   /\ Len(broadcast') = Len(broadcast) + 1
                   /\ SubSeq(broadcast', 1, Len(broadcast)) = broadcast
                   /\ broadcast'[Len(broadcast')].src = p
                   /\ broadcast'[Len(broadcast')].n = sent'[p]
       /\ (broadcast' # broadcast /\ sent' = sent) =>
             /\ broadcast' = Tail(broadcast)
             /\ message' = Head(broadcast)
       /\ (Len(broadcast) = MaxQueue /\ broadcast' # broadcast) =>
             /\ Len(broadcast') < MaxQueue
             /\ \A p \in Producers : sent[p] < MaxSubmit => CanSubmit(p)']_vars

\* the channel is full and a producer that has a message to send waits
C14_Witness ==
    /\ Len(broadcast) = MaxQueue
    /\ \E p \in Producers : sent[p] < MaxSubmit /\ ~CanSubmit(p)
    /\ hubPc = "deliver"

\* C18: the hub writes only to handles in the Registered state: a handle
\* that was unregistered or dropped after a failed write (or never
\* registered) gets no write in any later pass until a Register for it has
\* been processed; once re-registered it is again written every event that
\* its filter accepts.
Unregistered == Conns \ Registered

InSubmitPass == hubPc \in {"snapshot", "snapshotLocked", "marshal", "deliver",
                           "remove", "removeLocked"}

C20_NoSubscriberNoEffect ==
    [][/\ (hubPc = "select" /\ hubPc' = "snapshot" /\ clients = EmptyMap) =>
            /\ broadcast' = Tail(broadcast)
            /\ clients' = EmptyMap
       /\ (InSubmitPass /\ clients = EmptyMap /\ hubPc' # hubPc) =>
            /\ clients' = EmptyMap
            /\ clientsCopy' = EmptyMap
            /\ todo' = {}
            /\ failedClients' = <<>>
            /\ closes' = closes
            /\ received' = received
            /\ attempts' = [c \in Conns |-> 0]
            /\ lastOp' = lastOp
            /\ broadcast' = broadcast
            /\ weeklyRecords' = weeklyRecords
            /\ mutex'.w # "hub"
            /\ hubPc' \in {"snapshotLocked", "marshal", "deliver", "select"}
            /\ hubPc = "deliver" => hubPc' = "select"]_vars

\* an encodable event is in its pass over the empty registry, and a handle
\* that was unregistered before is not touched
C20_Witness ==
    /\ hubPc = "deliver"
    /\ message.ok
    /\ clients = EmptyMap
    /\ clientsCopy = EmptyMap
    /\ \E c \in Conns : lastOp[c] = "unregister" /\ closes[c] = 1
    /\ broadcast # <<>>

\* ---------------------------------------------------- filters that match
\* a specification is unknown when it is not empty and accepts no event type
UnknownSpec(f) == f # <<>> /\ \A t \in EventTypes : ~Accepts(f, t)

PassOver(c) == InPass /\ c \in DOMAIN clients /\ c \notin todo

\* C16 as stated: a subscriber whose filter names no known event type
\* ("foo", " ") is written every event, like one with the empty filter.
C16_UnknownDeliversAll ==
    \A c \in Conns :
        (PassOver(c) /\ (UnknownSpec(clients[c]) \/ clients[c] = FilterAll)) =>
            attempts[c] = 1

\* C16 as amended: a subscriber whose filter is not empty and names no known
\* event type is written no event at all; only the
\* empty filter is written every event.
C16_UnknownDeliversNothing ==
    \A c \in Conns :
        /\ (c \in DOMAIN clients /\ UnknownSpec(clients[c])) => attempts[c] = 0
        /\ (PassOver(c) /\ clients[c] = FilterAll) => attempts[c] = 1
        /\ (\A t \in EventTypes : attempts[c] = 1 /\ message.Type = t =>
                Accepts(clientsCopy[c], t))

C16_Witness ==
    /\ hubPc = "deliver"
    /\ todo = {}
    /\ message.Type \in EventTypes
    /\ \E c, d \in DOMAIN clients :
         /\ clients[c] = FilterUnknown /\ attempts[c] = 0
         /\ clients[d] = FilterAll /\ attempts[d] = 1

\* C17: a connection registered by the monitor handler is written every
\* metrics event and every session event.
C17_MonitorGetsSessions ==
    \A c \in Conns :
        (PassOver(c) /\ clients[c] = FilterMonitor
           /\ message.Type \in {Metrics, Session}) => attempts[c] = 1

\* ------------------------------------------------------------- the mutex
LedgerHolds == mutex.w \in Workers \/ mutex.r \cap Workers # {}
RegistryHolds == mutex.w = "hub" \/ mutex.r \cap {"hub", "diag"} # {}

\* C15 as stated: a ledger method never waits for a lock the hub holds (for
\* a registration, unregistration, snapshot copy or batched removal), and
\* the hub never waits for a lock a ledger method holds.
OnlyHubHolds == mutex.w \in {"none", "hub"} /\ mutex.r \subseteq {"hub"}
OnlyLedgerHolds == mutex.w \in {"none"} \cup Workers /\ mutex.r \subseteq Workers

C15_IndependentLocks ==
    /\ \A g \in Workers :
         /\ (opPc[g] = "add" /\ OnlyHubHolds) => ENABLED AddSessionRecordLock(g)
         /\ (opPc[g] = "get" /\ OnlyHubHolds) => ENABLED GetWeeklyTotalRLock(g)
    /\ (hubPc \in {"register", "unregister", "remove"} /\ OnlyLedgerHolds) =>
         ENABLED (RegisterLock \/ UnregisterLock \/ RemoveLock)
    /\ (hubPc = "snapshot" /\ OnlyLedgerHolds) => ENABLED SnapshotRLock

\* C15 as amended: the ledger and the registry are guarded by the one
\* reader/writer lock h.mutex. AddSessionRecord and the hub's registration,
\* unregistration and batched removal each wait until nobody holds it, so
\* they wait for each other and for every reader; the readers
\* (GetWeeklyTotal, the snapshot copy) wait only for a writer, never for each
\* other; the hub holds the lock only inside those four sections and not
\* during marshalling or the writes of a pass.
C15_OneSharedLock ==
    /\ mutex.w # "none" => mutex.r = {}
    /\ mutex.w = "hub" <=>
         hubPc \in {"registerLocked", "unregisterLocked", "removeLocked"}
    /\ "hub" \in mutex.r <=> hubPc = "snapshotLocked"
    /\ \A g \in Workers :
         /\ mutex.w = g <=> opPc[g] = "addLocked"
         /\ g \in mutex.r <=> opPc[g] \in {"getLocked", "allLocked"}
         /\ opPc[g] = "add" =>
               (ENABLED AddSessionRecordLock(g) <=> ~LedgerHolds /\ ~RegistryHolds)
         /\ opPc[g] = "get" =>
               (ENABLED GetWeeklyTotalRLock(g) <=> mutex.w = "none")
    /\ hubPc \in {"register", "unregister", "remove"} =>
         (ENABLED (RegisterLock \/ UnregisterLock \/ RemoveLock)
             <=> ~LedgerHolds /\ ~RegistryHolds)
    /\ hubPc = "snapshot" => (ENABLED SnapshotRLock <=> mutex.w = "none")

\* AddSessionRecord waits for the lock while the hub copies the registry and
\* GetWeeklyTotal reads the records, both under the shared read lock
C15_Witness ==
    /\ opPc["g1"] = "add"
    /\ opPc["g2"] = "getLocked"
    /\ hubPc = "snapshotLocked"
    /\ mutex.r = {"hub", "g2"}
    /\ clients # EmptyMap

\* C19: h.clients changes only in a step of the hub that holds the write
\* lock, and then no reader (snapshot copy, GetClientCount, /health, /stats,
\* a ledger reader) holds the lock; while a reader holds it the registry
\* does not change, so no reader sees a registry that is being changed.
C19_RegistryMutationExclusive ==
    [][/\ clients' # clients =>
            /\ hubPc \in {"registerLocked", "unregisterLocked", "removeLocked"}
            /\ hubPc' = "select"
            /\ mutex.w = "hub"
            /\ mutex.r = {}
            /\ diagPc = "idle"
       /\ mutex.r # {} => clients' = clients
       /\ diagPc # "idle" => ("diag" \in mutex.r /\ mutex.w = "none")
       /\ hubPc = "snapshotLocked" => ("hub" \in mutex.r /\ mutex.w = "none")
       /\ (hubPc = "snapshotLocked" /\ hubPc' # hubPc) => clientsCopy' = clients']_vars

\* the hub waits with its batched removal while /stats ranges over the
\* registry
C19_Witness ==
    /\ diagPc = "stats"
    /\ hubPc = "remove"
    /\ Len(failedClients) > 0
    /\ DOMAIN clients = Conns
    /\ mutex.r = {"diag"}

\* ------------------------------------------------- the pass and the lock
HubHoldsLock == mutex.w = "hub" \/ "hub" \in mutex.r

\* C21: the hub holds h.mutex neither shared nor exclusive when it writes to
\* a connection; within a pass it holds the lock only while it copies the
\* registry and while it removes the failed connections.
C21_NoLockDuringWrite ==
    [][/\ (\E c \in Conns : attempts'[c] > attempts[c]) =>
             (~HubHoldsLock /\ ~HubHoldsLock')
       /\ (InSubmitPass /\ HubHoldsLock) =>
             hubPc \in {"snapshotLocked", "removeLocked"}
       /\ (InSubmitPass /\ hubPc \notin {"snapshotLocked", "removeLocked"}) =>
             ~HubHoldsLock]_vars

\* the second write of a pass, after a first one that failed
C21_Witness ==
    /\ hubPc = "deliver"
    /\ todo = {}
    /\ Len(failedClients) = 1
    /\ \A c \in Conns : attempts[c] = 1
    /\ mutex = [w |-> "none", r |-> {}]

\* C22: while a pass ranges over the copied registry a failed connection is
\* only appended to failedClients: the registry and the connections stay as
\* they are; after the last iteration one step under the write lock deletes
\* and closes every failed connection (that is still registered) together.
C22_BatchedRemoval ==
    [][/\ (hubPc = "deliver" /\ hubPc' # "select") =>
             (clients' = clients /\ closes' = closes)
       /\ hubPc \in {"deliver", "remove", "removeLocked"} =>
             Range(failedClients) \subseteq DOMAIN clients
       /\ (hubPc = "remove" \/ hubPc' = "remove") =>
             (todo = {} /\ clients' = clients /\ closes' = closes)
       /\ (hubPc = "removeLocked" /\ hubPc' # hubPc) =>
             /\ hubPc' = "select"
             /\ DOMAIN clients' = DOMAIN clients \ Range(failedClients)
             /\ \A c \in Range(failedClients) : closes'[c] = closes[c] + 1
             /\ \A c \in Conns \ Range(failedClients) : closes'[c] = closes[c]
       /\ (hubPc = "deliver" /\ hubPc' = "select") => failedClients = <<>>]_vars

\* both connections failed in the pass and are still registered, the
\* removal has the write lock
C22_Witness ==
    /\ hubPc = "removeLocked"
    /\ Range(failedClients) = Conns
    /\ DOMAIN clients = Conns
    /\ \A c \in Conns : closes[c] = 0

\* C23 as stated: a Register or Unregister that is pending while the hub
\* marshals or writes in a pass can be received by the hub at once.
C23_RequestNotStalledByPass ==
    (hubPc \in {"marshal", "deliver"}) =>
        /\ regPending # {} => ENABLED RecvRegister
        /\ unregPending # {} => ENABLED RecvUnregister

\* C23 as amended: the hub receives a Register or Unregister only at its
\* select, so a request issued during a pass stays pending until the pass
\* has returned and is received after that; what the pass does not stall
\* while it marshals and writes are the operations that only take the lock
\* (AddSessionRecord, GetWeeklyTotal, GetClientCount, /health, /stats).
C23_RequestWaitsForPass ==
    /\ InSubmitPass => (~ENABLED RecvRegister /\ ~ENABLED RecvUnregister)
    /\ hubPc = "select" =>
         /\ regPending # {} => ENABLED RecvRegister
         /\ unregPending # {} => ENABLED RecvUnregister
    /\ (hubPc \in {"marshal", "deliver"} /\ OnlyHubHolds) =>
         /\ diagPc = "idle" =>
               (ENABLED GetClientCountRLock /\ ENABLED HealthRLock /\ ENABLED StatsRLock)
         /\ \A g \in Workers :
               /\ opPc[g] = "add" => ENABLED AddSessionRecordLock(g)
               /\ opPc[g] = "get" => ENABLED GetWeeklyTotalRLock(g)

\* a Register and an Unregister wait while the pass still has a connection
\* to write to, and AddSessionRecord has taken the lock meanwhile
C23_Witness ==
    /\ hubPc = "deliver"
    /\ todo # {}
    /\ regPending # {}
    /\ unregPending # {}
    /\ opPc["g1"] = "addLocked"

\* C24: with the hub goroutine scheduled fairly every pass returns, also
\* when writes fail at their deadline; every message that is in the channel
\* is received by the hub, and every pending Register and Unregister is
\* received and applied.
Queued(n) == \E i \in 1..Len(broadcast) : broadcast[i].n = n

C24_PassesTerminate ==
    /\ (hubPc # "select") ~> (hubPc = "select")
    /\ \A n \in 1..(MaxSubmit + 1) :
          Queued(n) ~> (hubPc = "snapshot" /\ message.n = n)
    /\ \A n \in 1..(MaxSubmit + 1) :
          (hubPc = "snapshot" /\ message.n = n) ~> (hubPc = "select" /\ ~Queued(n))
    /\ \A c \in Conns :
          /\ ([Conn |-> c, Filter |-> FilterAll] \in regPending)
                ~> (hubPc = "select" /\ lastOp[c] \in {"register", "reregister"})
          /\ (c \in unregPending)
                ~> (hubPc = "select" /\ lastOp[c] \in {"unregister", "absent"})

\* every call has been made and processed; one connection was dropped after
\* a write that failed, the other is registered
C24_Witness ==
    /\ hubPc = "select"
    /\ calls = MaxCalls
    /\ sent[Sampler] = MaxSubmit
    /\ broadcast = <<>>
    /\ regPending = {}
    /\ unregPending = {}
    /\ \E c \in Conns : \E d \in Conns \ {c} :
          lastOp[c] = "dropped" /\ lastOp[d] = "register"

\* C27 as stated: AddSessionRecord discards a stored record iff it is older
\* than 7 days at the call's "now"; a record exactly 7 days old is retained
\* and counted, and the appended record is always retained.
C27_KeepsSevenDaysOld ==
    [][\A g \in Workers :
          LET k == opArgs[g].clientKey
              now == opArgs[g].now
              new == [Timestamp |-> now, Duration |-> opArgs[g].duration]
              all == Append(Records(k), new)
              kept == SelectSeq(all, LAMBDA r : r.Timestamp >= now - Week)
          IN  Returns(g, "addLocked") =>
                /\ weeklyRecords'[k] = kept
                /\ ret'.total = SumDuration(kept)
                /\ kept # <<>> /\ kept[Len(kept)] = new]_vars

\* C27 as amended: AddSessionRecord retains a stored record iff its
\* timestamp is later than 7 days before the call's "now"; a record exactly
\* 7 days old is discarded and not counted, and the appended record is
\* always retained.
C27_DropsSevenDaysOld ==
    [][\A g \in Workers :
          LET k == opArgs[g].clientKey
              now == opArgs[g].now
              new == [Timestamp |-> now, Duration |-> opArgs[g].duration]
              all == Append(Records(k), new)
              kept == SelectSeq(all, LAMBDA r : r.Timestamp > now - Week)
          IN  Returns(g, "addLocked") =>
                /\ weeklyRecords'[k] = kept
                /\ ret'.total = SumDuration(kept)
                /\ kept # <<>> /\ kept[Len(kept)] = new
                /\ \A i \in 1..Len(kept) : kept[i].Timestamp # now - Week]_vars

\* a record of day 0 was stored and a write at day 7 exactly dropped it
C27_Witness ==
    \E k \in Keys :
        /\ history[k] = <<[now |-> 0, d |-> 100], [now |-> Week, d |-> 50]>>
        /\ Records(k) = <<[Timestamp |-> Week, Duration |-> 50]>>
        /\ ret.op = "add"
        /\ ret.total = 50

\* a step in which tracking handler t sends an event of type ty
Sends(t, ty) ==
    /\ Len(broadcast') = Len(broadcast) + 1
    /\ broadcast'[Len(broadcast')].src = t
    /\ broadcast'[Len(broadcast')].Type = ty

\* C25: for an accepted report the tracking handler calls AddSessionRecord,
\* then sends the session event, then sends the weekly_summary event whose
\* week_seconds is the value AddSessionRecord returned for that report; in
\* the channel and at every subscriber the session event of a report comes
\* before its weekly_summary.
C25_SessionThenSummary ==
    /\ [](\A c \in Conns : \A i, j \in 1..Len(received[c]) :
            (/\ received[c][i].Type = WeeklySummary
             /\ received[c][j].Type = Session
             /\ received[c][j].src = received[c][i].src
             /\ received[c][j].n = received[c][i].n) => j < i)
    /\ [](\A i, j \in 1..Len(broadcast) :
            (/\ broadcast[i].Type = WeeklySummary
             /\ broadcast[j].Type = Session
             /\ broadcast[j].src = broadcast[i].src
             /\ broadcast[j].n = broadcast[i].n) => j < i)
    /\ [][\A t \in TrackConns :
            LET k == TrackIP[t]
                sentEvent == broadcast'[Len(broadcast')]
            IN  /\ (trackPc[t] = "addLocked" /\ trackPc'[t] # "addLocked") =>
                      /\ trackPc'[t] = "session"
                      /\ weeklyRecords'[k] # <<>>
                      /\ weeklyRecords'[k][Len(weeklyRecords'[k])] =
                             [Timestamp |-> trackNow[t], Duration |-> report[t].DurationSeconds]
                      /\ weekSeconds'[t] = SumDuration(weeklyRecords'[k])
                      /\ broadcast' = broadcast
                /\ weekSeconds'[t] # weekSeconds[t] => trackPc[t] = "addLocked"
                /\ Sends(t, Session) =>
                      /\ trackPc[t] = "session" /\ trackPc'[t] = "summary"
                      /\ sentEvent.n = reports[t]
                      /\ sentEvent.data = report[t].DurationSeconds
                /\ Sends(t, WeeklySummary) =>
                      /\ trackPc[t] = "summary"
                      /\ sentEvent.n = reports[t]
                      /\ sentEvent.data = weekSeconds[t]
                /\ (trackPc'[t] = "summary" /\ trackPc[t] # "summary") => Sends(t, Session)
                /\ (trackPc[t] = "summary" /\ trackPc'[t] # "summary") => Sends(t, WeeklySummary)]_vars

\* a subscriber has received the two events of both reports of a client,
\* the second summary with the total of the two durations
C25_Witness ==
    \E c \in Conns : \E t \in TrackConns :
        received[c] =
            << [Type |-> Session, src |-> t, n |-> 1, ok |-> TRUE, data |-> 50],
               [Type |-> WeeklySummary, src |-> t, n |-> 1, ok |-> TRUE, data |-> 50],
               [Type |-> Session, src |-> t, n |-> 2, ok |-> TRUE, data |-> 50],
               [Type |-> WeeklySummary, src |-> t, n |-> 2, ok |-> TRUE, data |-> 100] >>

\* C26: the tracking handler rejects a report that does not parse or whose
\* duration is not positive before it calls AddSessionRecord: the ledger is
\* unchanged and no event is sent for it, so no record with a non-positive
\* duration is stored.
Events == Range(broadcast) \cup {message} \cup UNION {Range(received[c]) : c \in Conns}

C26_RejectsBeforeAddRecord ==
    /\ [](\A k \in DOMAIN weeklyRecords : \A i \in 1..Len(weeklyRecords[k]) :
            weeklyRecords[k][i].Duration > 0)
    /\ [](\A t \in TrackConns :
            /\ trackPc[t] \in {"add", "addLocked", "session", "summary"} =>
                  (report[t].parsed /\ report[t].DurationSeconds > 0)
            /\ (reports[t] > 0 /\ (~report[t].parsed \/ report[t].DurationSeconds <= 0)) =>
                  /\ trackPc[t] \in {"read", "closed"}
                  /\ \A e \in Events : ~(e.src = t /\ e.n = reports[t]))
    /\ [](\A e \in Events : e.Type = Session => e.data > 0)
    /\ [][\A t \in TrackConns :
            (reports'[t] = reports[t] + 1
               /\ (~report'[t].parsed \/ report'[t].DurationSeconds <= 0)) =>
                  /\ weeklyRecords' = weeklyRecords
                  /\ history' = history
                  /\ broadcast' = broadcast
                  /\ trackPc'[t] = "read"]_vars

\* a client sent a report that does not parse or has duration 0, and then
\* one of duration -1: nothing is stored, nothing was sent
C26_Witness ==
    /\ reports["t1"] = 2
    /\ report["t1"] = [parsed |-> TRUE, DurationSeconds |-> -1]
    /\ reports["t2"] = 0
    /\ weeklyRecords = EmptyMap
    /\ broadcast = <<>>
    /\ \A c \in Conns : received[c] = <<>>
    /\ hubPc = "select"
    /\ DOMAIN clients # {}

\* C28: the weekly totals in the /stats response are the GetAllWeeklyTotals
\* values: per client key the sum of the records younger than 7 days at the
\* time of the request, never the duration of an expired record that no
\* write has pruned yet.
C28_StatsAreWeeklyTotals ==
    [][(diagPc = "stats" /\ diagPc' = "idle") =>
          /\ \A k \in DOMAIN ret'.totals :
                ret'.totals[k] = SumOver(Records(k), YoungOf(Records(k), clock))
          /\ \A k \in DOMAIN GetAllWeeklyTotals(clock) :
                k \in DOMAIN ret'.totals /\ ret'.totals[k] = GetAllWeeklyTotals(clock)[k]]_vars

\* C29: at most one context writes to a subscriber connection at a time: a
\* hub write to a registered connection never happens while the ping
\* goroutine of that connection's handler is writing to it.
C29_OneWriterPerConnection ==
    [][\A c \in Conns : attempts'[c] > attempts[c] => pingPc[c] # "write"]_vars

\* C30: at all times the number of running samplers is at most the number
\* of monitor clients whose handler has not returned yet.
C30_SamplersOnlyForConnected ==
    Cardinality({c \in Conns : samplers[c]})
        <= Cardinality({c \in Conns : handler[c] = "monitor"
                                        /\ connPc[c] \in {"register", "read", "unregister"}})

\* C31 as stated: under concurrent AddSessionRecord calls the stored records
\* of every key are always in non-decreasing timestamp order.
C31_StoredInTimestampOrder ==
    \A k \in DOMAIN weeklyRecords : \A i, j \in 1..Len(weeklyRecords[k]) :
        i < j => weeklyRecords[k][i].Timestamp <= weeklyRecords[k][j].Timestamp

\* C31 as amended: the stored records of a key are in insertion order, the
\* order in which the calls took the lock, and each call is one atomic
\* read-modify-write of the sequence under the lock; its timestamp and its
\* 7-day cutoff are those of its entry, before it waits for the lock, so
\* they can be older than the moment of the append and older than the
\* timestamps stored before it.
C31_InsertionOrderUnderLock ==
    [][/\ \A g \in Workers :
            LET k == opArgs[g].clientKey
                now == opArgs[g].now
                new == [Timestamp |-> now, Duration |-> opArgs[g].duration]
                kept == SelectSeq(Append(Records(k), new),
                                  LAMBDA r : r.Timestamp > now - Week)
            IN  /\ Returns(g, "addLocked") =>
                      /\ weeklyRecords'[k] = kept
                      /\ kept[Len(kept)] = new
                      /\ now <= clock
                      /\ mutex.w = g /\ mutex.r = {}
                /\ (opPc[g] = "idle" /\ opPc'[g] = "add") =>
                      (opArgs'[g].now = clock /\ weeklyRecords' = weeklyRecords)
                /\ (opPc[g] = "add" /\ opPc'[g] = "addLocked") =>
                      (opArgs'[g] = opArgs[g] /\ weeklyRecords' = weeklyRecords)
                /\ (opPc[g] = "addLocked" /\ opPc'[g] = "addLocked") =>
                      weeklyRecords' = weeklyRecords
       /\ weeklyRecords' # weeklyRecords => \E g \in Workers : Returns(g, "addLocked")]_vars

\* a call that entered at day 0 appended after a call that entered at day 7
C31_Witness ==
    \E k \in Keys :
        /\ Len(Records(k)) = 2
        /\ Records(k)[1].Timestamp = Week
        /\ Records(k)[2].Timestamp = 0
        /\ clock = Week

\* the Register call for c has returned (the hub has received the
\* subscription) and c has not been removed since
RegisterReturned(c) ==
    \/ c \in DOMAIN clients
    \/ hubPc \in {"register", "registerLocked"} /\ sub.Conn = c

Got(c, n) == \E i \in 1..Len(received[c]) : received[c][i].n = n

\* c left the registry, by an Unregister or after a write to it failed
Excused(c) == ~RegisterReturned(c) \/ c \in Range(failedClients)

MarshalFails(n) == hubPc = "marshal" /\ message.n = n /\ ~message.ok

\* C32 as stated: an event submitted after Register(h, F) has returned is
\* eventually delivered to h, unless h is unregistered or a write to h
\* fails (F matches every type here).
C32_RegisteredGetsEvent ==
    \A c \in Conns : \A n \in 1..MaxSubmit :
        (Queued(n) /\ RegisterReturned(c)) ~> (Got(c, n) \/ Excused(c))

\* C32 as amended: such an event is eventually delivered to h, unless h is
\* unregistered, a write to h fails, or the event cannot be serialised, in
\* which case its pass is abandoned and it reaches nobody.
C32_RegisteredGetsSerialisable ==
    \A c \in Conns : \A n \in 1..MaxSubmit :
        (Queued(n) /\ RegisterReturned(c)) ~> (Got(c, n) \/ Excused(c) \/ MarshalFails(n))

\* a connection registered once has received every event that was sent
C32_Witness ==
    \E c \in Conns :
        /\ lastOp[c] = "register"
        /\ c \in DOMAIN clients
        /\ Got(c, 1) /\ Got(c, MaxSubmit)
        /\ sent[Sampler] = MaxSubmit
        /\ hubPc = "select"

\* the contexts that hold h.mutex, shared or exclusive
Holders == ({mutex.w} \ {"none"}) \cup mutex.r

\* the holder can release the lock at once: it waits for nothing
Releases(h) ==
    IF h = "hub"
    THEN ENABLED RegisterApply \/ ENABLED UnregisterApply
            \/ ENABLED SnapshotCopy \/ ENABLED RemoveFailed
    ELSE IF h = "diag"
    THEN ENABLED GetClientCountReturn \/ ENABLED HealthReturn \/ ENABLED StatsReturn
    ELSE h \in Workers /\ ENABLED AddSessionRecordReturn(h)

HubWaitsForLock ==
    \/ hubPc \in {"register", "unregister", "remove"} /\ ~CanLock
    \/ hubPc = "snapshot" /\ ~CanRLock

\* C33: no deadlock. Whoever holds h.mutex can release it at once; the hub
\* holds it only in its locked sections and waits for it only while holding
\* nothing; it never waits on a channel send; and whenever a producer, a
\* handler or a reader waits for the channel, for the hub or for the lock,
\* the hub or a holder of the lock has a step to take.
C33_DeadlockFree ==
    /\ \A h \in Holders : Releases(h)
    /\ "hub" \in Holders <=>
          hubPc \in {"registerLocked", "unregisterLocked", "snapshotLocked", "removeLocked"}
    /\ (hubPc = "select" /\ (broadcast # <<>> \/ regPending # {} \/ unregPending # {})) =>
          ENABLED HubNext
    /\ hubPc # "select" =>
          (ENABLED HubNext \/ (HubWaitsForLock /\ Holders \ {"hub"} # {}))
    /\ (hubPc = "deliver" /\ todo # {}) => ENABLED (\E c \in Conns : Deliver(c))
    /\ opPc["g1"] = "add" => (ENABLED AddSessionRecordLock("g1") \/ Holders # {})
    /\ diagPc = "idle" =>
          (ENABLED GetClientCountRLock /\ ENABLED HealthRLock /\ ENABLED StatsRLock)
             \/ mutex.w # "none"
    /\ \A c \in Conns :
          /\ connPc[c] = "register" =>
                ((\E x \in regPending : x.Conn = c) \/ ENABLED MonitorStart(c))
          /\ connPc[c] = "unregister" =>
                (c \in unregPending \/ ENABLED MonitorReturn(c))

\* the sampler waits for the full channel, a handler waits in its
\* unregistration, the ledger caller and the hub wait for the lock that a
\* reader holds
C33_Witness ==
    /\ Len(broadcast) = MaxQueue
    /\ \E c \in Conns : samplers[c]
    /\ unregPending # {}
    /\ opPc["g1"] = "add"
    /\ hubPc = "unregister"
    /\ mutex.r = {"diag"}

\* a step that deletes c from h.clients
Deleted(c) == c \in DOMAIN clients /\ c \notin DOMAIN clients'

\* C34: the hub closes a connection once for each deletion of it from
\* h.clients and in the very step that deletes it, which is either the
\* Unregister of that connection or the removal of the failed connections,
\* both under the write lock; it never closes or deletes a connection that
\* is not in h.clients.
C34_ClosedOncePerRemoval ==
    [][\A c \in Conns :
          /\ closes'[c] \in {closes[c], closes[c] + 1}
          /\ closes'[c] = closes[c] + 1 <=> Deleted(c)
          /\ c \notin DOMAIN clients => closes'[c] = closes[c]
          /\ Deleted(c) =>
                /\ mutex.w = "hub"
                /\ \/ hubPc = "unregisterLocked" /\ client = c
                   \/ hubPc = "removeLocked" /\ c \in Range(failedClients)]_vars

\* one connection was closed on its Unregister, the other after a write to
\* it failed
C34_Witness ==
    \E c \in Conns : \E d \in Conns \ {c} :
        /\ lastOp[c] = "unregister" /\ closes[c] = 1
        /\ lastOp[d] = "dropped" /\ closes[d] = 1
        /\ clients = EmptyMap

====
